---------------------------- MODULE Spec2Model ----------------------------
(***************************************************************************)
(* State-machine model of gdstk's library.cpp: the GDSII and OASIS readers *)
(* (read_gds, read_oas) and the writers (write_oas, write_gds).           *)
(*                                                                         *)
(* Files are modelled at record granularity.  Heap objects (Cell,          *)
(* Polygon, FlexPath, Reference, Label) live in per-type heaps, sequences  *)
(* indexed by allocation order; a pointer is an index into its heap and 0  *)
(* is NULL.  Coordinates in user units are integers counting 1/SubDbu of a *)
(* database unit, so that the scaling done by reader and writer is not the *)
(* identity.  Rotations count eighths of a turn (pi/4).                    *)
(***************************************************************************)
EXTENDS Integers, Sequences, FiniteSets, TLC

VARIABLES
    fn,                 \* entry point running: "read_gds", "read_oas", "write_oas"
    status,             \* "reading", "at_end" (file cursor at EOF), "returned", "crashed"
    rec,                \* the record handled by the last step
    log,                \* messages written to stderr (set of tags)
    library,            \* Library under construction: name, cell_array
    cells,              \* heap of Cell
    polygons,           \* heap of Polygon
    flexpaths,          \* heap of FlexPath
    references,         \* heap of Reference
    labels,             \* heap of Label
    cell,               \* Cell* cell
    gds_polygon,        \* read_gds: Polygon* polygon (open element)
    gds_path,           \* read_gds: FlexPath* path (open element)
    reference,          \* read_gds: Reference* reference (open element)
    gds_label,          \* read_gds: Label* label (open element)
    modal,              \* read_oas: the modal_* variables
    cell_name_table,    \* read_oas: Array<ByteArray> cell_name_table
    label_text_table,   \* read_oas: Array<ByteArray> label_text_table
    in_data,            \* read_oas: OasisStream in.data .. in.cursor (records left)
    next_property,      \* read_oas: Property** next_property (the list it ends)
    file_kind,          \* class of input file the environment feeds
    gds,                \* read_gds: the locals factor, width and key
    lib_in,             \* write_oas: the Library being written
    files,              \* write_oas: file written, per use_cblock flag
    libs_out,           \* read_oas result of reading files[flag] back
    out,                \* write_oas: OasisStream out (file, data, cursor)
    wr,                 \* write_oas: position in the function and its locals
    io,                 \* the FILE* and scratch buffer of one call, and what it returns
    fixup               \* read_oas: the property tables and the fix-up lists

vars == <<fn, status, rec, log, library, cells, polygons, flexpaths, references,
          labels, cell, gds_polygon, gds_path, reference, gds_label, modal, cell_name_table,
          label_text_table,
          in_data, next_property, file_kind, gds, lib_in, files, libs_out, out, wr, io, fixup>>

-----------------------------------------------------------------------------
(* Bounds of the model *)

\* element records per input file
MaxElems == 2
\* sub-steps of one database unit resolved by user-unit coordinates
SubDbu == 2

-----------------------------------------------------------------------------
(* Basic values *)

NULLSTR == "<NULL>"

Vec2(x, y) == <<x, y>>
VAdd(p, q) == <<p[1] + q[1], p[2] + q[2]>>

NoRepetition == [type |-> "None", columns |-> 0, rows |-> 0, spacing |-> <<0, 0>>]

\* info & mask, for a one-bit mask
Bit(info, mask) == (info \div mask) % 2 = 1

\* factor * n of read_oas: database units to user units
Factor == SubDbu
ToUser(n) == Factor * n

Last(s) == s[Len(s)]


-----------------------------------------------------------------------------
(* Heap objects, as allocate_clear leaves them *)

NewCell ==
    [name |-> NULLSTR, owner |-> 0, polygon_array |-> <<>>, flexpath_array |-> <<>>,
     reference_array |-> <<>>, label_array |-> <<>>, properties |-> <<>>]

\* Reference: cell and name share storage (a union); type says which is live.
\* While read_oas parses, a reference of type Cell holds the reference number
\* in the cell field.
NewReference ==
    [type |-> "Cell", cell |-> 0, name |-> NULLSTR, origin |-> <<0, 0>>,
     magnification |-> 0, rotation |-> 0, x_reflection |-> FALSE,
     repetition |-> NoRepetition, properties |-> <<>>]

\* Label: owner holds the text reference number while text is NULL (read_oas)
NewLabel ==
    [text |-> NULLSTR, owner |-> 0, layer |-> 0, texttype |-> 0, origin |-> <<0, 0>>,
     anchor |-> "NW", rotation |-> 0, magnification |-> 0, x_reflection |-> FALSE,
     repetition |-> NoRepetition, properties |-> <<>>]

\* Polygon; size_wrapped: point_array.size is 2^64 - 1 after size-- on an empty array
NewPolygon ==
    [layer |-> 0, datatype |-> 0, point_array |-> <<>>, repetition |-> NoRepetition,
     properties |-> <<>>, size_wrapped |-> FALSE]

NewFlexPath ==
    [layer |-> 0, datatype |-> 0, half_width |-> 0, end_type |-> "Flush",
     end_extensions |-> <<0, 0>>, spine |-> <<>>, gdsii_path |-> FALSE,
     scale_width |-> FALSE, repetition |-> NoRepetition, properties |-> <<>>]

\* rectangle(corner1, corner2, layer, datatype) of polygon.h
rectangle(c1, c2, layer, datatype) ==
    [layer |-> layer, datatype |-> datatype,
     point_array |-> <<c1, <<c2[1], c1[2]>>, c2, <<c1[1], c2[2]>>>>,
     repetition |-> NoRepetition, properties |-> <<>>, size_wrapped |-> FALSE]

\* ellipse(center, r, r, ...) of polygon.h: the circle as a 4-point polygon
ellipse(c, r, layer, datatype) ==
    [layer |-> layer, datatype |-> datatype,
     point_array |-> <<VAdd(c, <<r, 0>>), VAdd(c, <<0, r>>),
                       VAdd(c, <<-r, 0>>), VAdd(c, <<0, -r>>)>>,
     repetition |-> NoRepetition, properties |-> <<>>, size_wrapped |-> FALSE]

\* Map<T>::get: the value stored for key, the zero value when there is none
MapGet(map, key) == IF key \in DOMAIN map THEN map[key] ELSE 0

-----------------------------------------------------------------------------
(* OASIS records.  Every record has the same fields; a handler reads the    *)
(* operands its record type and info byte select.                          *)

NoRec ==
    [type |-> "NONE", info |-> 0, name |-> NULLSTR, num |-> 0, layer |-> 0,
     datatype |-> 0, w |-> 0, h |-> 0, a |-> 0, b |-> 0, pts |-> <<>>, x |-> 0,
     y |-> 0, rep |-> NoRepetition, mag |-> 1, angle |-> 0, ctype |-> 0,
     ext |-> 0, usize |-> 0, csize |-> 0, payload |-> [z |-> <<>>],
     values |-> <<>>]

\* &object->properties: the property list of the object idx of the given kind
PropertiesOf(kind, idx) == [kind |-> kind, idx |-> idx]

\* State of read_oas after the START record: the locals of lines 852-887
ModalInit ==
    [absolute_pos |-> TRUE, layer |-> 0, datatype |-> 0, textlayer |-> 0,
     texttype |-> 0, placement_pos |-> <<0, 0>>, text_pos |-> <<0, 0>>,
     geom_pos |-> <<0, 0>>, geom_dim |-> <<0, 0>>, repetition |-> NoRepetition,
     text_string |-> 0, placement_cell |-> 0, polygon_points |-> <<>>,
     path_points |-> <<>>, path_halfwidth |-> 0, path_extensions |-> <<0, 0>>,
     ctrapezoid_type |-> 0, circle_radius |-> 0, property |-> NULLSTR,
     property_value_list |-> <<>>]

\* the double 1 of read_gds: factor, width and the coordinates scaled by them
\* count thousandths
GdsOne == 1000

\* read_gds: double factor = 1; double width = 0; int16_t key = 0
GdsInit == [factor |-> GdsOne, width |-> 0, key |-> 0]

\* factor of case UNITS, from the unit argument and the two reals of the record
GdsFactor(c, d) ==
    IF c.unit > 0 THEN (d.db_in_meters * GdsOne) \div c.unit ELSE GdsOne \div d.per_user

\* the property tables, the fix-up lists and modal_property_unfinished of
\* read_oas before the record loop; allocated counts the Property and
\* PropertyValue objects allocated, the address of an object being its number
FixupInit ==
    [property_name_table |-> <<>>, property_value_table |-> <<>>,
     unfinished_property_name |-> <<>>, unfinished_property_value |-> <<>>,
     modal_property_unfinished |-> FALSE, allocated |-> 0]

OasInit ==
    [status |-> "reading", log |-> {},
     library |-> [name |-> NULLSTR, cell_array |-> <<>>, properties |-> <<>>],
     cells |-> <<>>, polygons |-> <<>>, flexpaths |-> <<>>, references |-> <<>>,
     labels |-> <<>>, cell |-> 0, modal |-> ModalInit, cell_name_table |-> <<>>,
     label_text_table |-> <<>>, in_data |-> <<>>, next_property |-> PropertiesOf("library", 0),
     fixup |-> FixupInit]

\* the Library a reader state holds
LibOf(s) ==
    [library |-> s.library, cells |-> s.cells, polygons |-> s.polygons,
     flexpaths |-> s.flexpaths, references |-> s.references, labels |-> s.labels]

\* no file written yet, no file read back yet
NoFiles == [b \in BOOLEAN |-> <<>>]

\* OasisStream before fopen: no file contents, an empty buffer, cursor NULL (0);
\* a cursor c > 0 points at out.data + (c - 1)
NoStream == [file |-> <<>>, data |-> <<>>, cursor |-> 0]

\* the locals of write_oas before the call
NoWriter ==
    [pc |-> "none", use_cblock |-> FALSE, i |-> 0, j |-> 0,
     text_string_map |-> <<>>, property_name_map |-> <<>>, property_value_array |-> <<>>,
     cell_name_offset |-> <<0>>, text_string_offset |-> <<0>>,
     prop_name_offset |-> <<0>>, prop_string_offset |-> <<0>>]
\* no call of an entry point that opens a file is in progress
NoCall ==
    [handle |-> "none", fclose |-> <<>>, data |-> "none", records |-> 0,
     unit |-> 0, precision |-> 0, library |-> "none", result |-> "none",
     file |-> <<>>, pos |-> 0]
NotRead == [b \in BOOLEAN |-> [OasInit EXCEPT !.status = "none"]]

\* A NULL pointer is dereferenced: the process ends with a fault
Crash(s) == [s EXCEPT !.status = "crashed"]

\* variant of UpdateCoord that ignores modal_absolute_pos
ReplaceCoord(absolute_pos, old, present, v) == IF present THEN ToUser(v) ELSE old

\* if (info & bit) { v = factor * read; if (modal_absolute_pos) pos = v; else pos += v; }
UpdateCoord(absolute_pos, old, present, v) ==
    IF present THEN (IF absolute_pos THEN ToUser(v) ELSE old + ToUser(v)) ELSE old

UpdatePos(absolute_pos, pos, xpresent, ypresent, r) ==
    <<UpdateCoord(absolute_pos, pos[1], xpresent, r.x),
      UpdateCoord(absolute_pos, pos[2], ypresent, r.y)>>

\* oasis_read_repetition(in, factor, repetition): the spacing in user units
ReadRepetition(rep) == [rep EXCEPT !.spacing = <<ToUser(@[1]), ToUser(@[2])>>]

\* oasis_read_real(in) * (M_PI / 180.0), and its inverse in write_oas
AngleToRotation(deg) == deg \div 45
RotationToAngle(rot) == rot * 45

\* the new cell of a CELL_REF_NUM / CELL record
CellOf(r) ==
    IF r.type = "CELL_REF_NUM" THEN [NewCell EXCEPT !.owner = r.num]
    ELSE [NewCell EXCEPT !.name = r.name]

\* variant of OasCell that leaves the modal positions alone
OasCellKeepPos(s, r) ==
    [s EXCEPT !.cells = Append(@, CellOf(r)),
              !.library.cell_array = Append(@, Len(s.cells) + 1),
              !.cell = Len(s.cells) + 1,
              !.next_property = PropertiesOf("cell", Len(s.cells) + 1)]

\* variant of OasCell that resets every modal variable
OasCellResetAll(s, r) ==
    [s EXCEPT !.cells = Append(@, CellOf(r)),
              !.library.cell_array = Append(@, Len(s.cells) + 1),
              !.cell = Len(s.cells) + 1,
              !.next_property = PropertiesOf("cell", Len(s.cells) + 1),
              !.modal = ModalInit]

\* case CELL_REF_NUM / CELL
OasCell(s, r) ==
    LET c == CellOf(r)
        idx == Len(s.cells) + 1
    IN  [s EXCEPT !.cells = Append(@, c),
                  !.library.cell_array = Append(@, idx),
                  !.cell = idx,
                  !.next_property = PropertiesOf("cell", idx),
                  !.modal.absolute_pos = TRUE,
                  !.modal.placement_pos = <<0, 0>>,
                  !.modal.geom_pos = <<0, 0>>,
                  !.modal.text_pos = <<0, 0>>]

\* case XYABSOLUTE / XYRELATIVE
OasXY(s, r) == [s EXCEPT !.modal.absolute_pos = (r.type = "XYABSOLUTE")]

\* rotation of a PLACEMENT record: switch (info & 0x06)
PlacementRotation(info) ==
    CASE (info \div 2) % 4 = 1 -> 2
      [] (info \div 2) % 4 = 2 -> 4
      [] (info \div 2) % 4 = 3 -> 6
      [] OTHER -> 0

\* case PLACEMENT / PLACEMENT_TRANSFORM
OasPlacement(s, r) ==
    IF s.cell = 0 THEN Crash(s)
    ELSE IF ~Bit(r.info, 128) /\ s.modal.placement_cell = 0 THEN Crash(s)
    ELSE
    LET info == r.info
        m == s.modal
        idx == Len(s.references) + 1
        src == s.references[m.placement_cell]
        target ==
            IF Bit(info, 128)
            THEN IF Bit(info, 64)
                 THEN [type |-> "Cell", cell |-> r.num, name |-> NULLSTR]
                 ELSE [type |-> "Name", cell |-> 0, name |-> r.name]
            ELSE IF src.type = "Cell"
                 THEN [type |-> "Cell", cell |-> src.cell, name |-> NULLSTR]
                 ELSE [type |-> "Name", cell |-> 0, name |-> src.name]
        magnification ==
            IF r.type = "PLACEMENT" THEN 1
            ELSE IF Bit(info, 4) THEN r.mag ELSE 1
        rotation ==
            IF r.type = "PLACEMENT" THEN PlacementRotation(info)
            ELSE IF Bit(info, 2) THEN AngleToRotation(r.angle) ELSE 0
        pos == UpdatePos(m.absolute_pos, m.placement_pos, Bit(info, 32), Bit(info, 16), r)
        ref == [NewReference EXCEPT
                   !.type = target.type, !.cell = target.cell, !.name = target.name,
                   !.magnification = magnification, !.rotation = rotation,
                   !.x_reflection = Bit(info, 1), !.origin = pos,
                   !.repetition = IF Bit(info, 8) THEN ReadRepetition(r.rep) ELSE NoRepetition]
    IN  [s EXCEPT !.references = Append(@, ref),
                  !.cells[s.cell].reference_array = Append(@, idx),
                  !.next_property = PropertiesOf("reference", idx),
                  !.modal.placement_cell = IF Bit(info, 128) THEN idx ELSE @,
                  !.modal.placement_pos = pos,
                  !.modal.repetition = IF Bit(info, 8) THEN ReadRepetition(r.rep) ELSE @]

\* case TEXT
OasText(s, r) ==
    IF s.cell = 0 THEN Crash(s)
    ELSE IF ~Bit(r.info, 64) /\ s.modal.text_string = 0 THEN Crash(s)
    ELSE
    LET info == r.info
        m == s.modal
        idx == Len(s.labels) + 1
        src == s.labels[m.text_string]
        txt ==
            IF Bit(info, 64)
            THEN IF Bit(info, 32)
                 THEN [text |-> NULLSTR, owner |-> r.num]
                 ELSE [text |-> r.name, owner |-> 0]
            ELSE IF src.text = NULLSTR
                 THEN [text |-> NULLSTR, owner |-> src.owner]
                 ELSE [text |-> src.text, owner |-> 0]
        textlayer == IF Bit(info, 1) THEN r.layer ELSE m.textlayer
        texttype == IF Bit(info, 2) THEN r.datatype ELSE m.texttype
        pos == UpdatePos(m.absolute_pos, m.text_pos, Bit(info, 16), Bit(info, 8), r)
        label == [NewLabel EXCEPT
                     !.magnification = 1, !.anchor = "SW",
                     !.text = txt.text, !.owner = txt.owner,
                     !.layer = textlayer, !.texttype = texttype, !.origin = pos,
                     !.repetition = IF Bit(info, 4) THEN ReadRepetition(r.rep) ELSE NoRepetition]
    IN  [s EXCEPT !.labels = Append(@, label),
                  !.cells[s.cell].label_array = Append(@, idx),
                  !.next_property = PropertiesOf("label", idx),
                  !.modal.text_string = IF Bit(info, 64) THEN idx ELSE @,
                  !.modal.textlayer = textlayer,
                  !.modal.texttype = texttype,
                  !.modal.text_pos = pos,
                  !.modal.repetition = IF Bit(info, 4) THEN ReadRepetition(r.rep) ELSE @]

\* variant of AddPolygon that puts the polygon first in the cell
AddPolygonFirst(s, p) ==
    [s EXCEPT !.polygons = Append(@, p),
              !.cells[s.cell].polygon_array = <<Len(s.polygons) + 1>> \o @,
              !.next_property = PropertiesOf("polygon", Len(s.polygons) + 1)]

\* Appends polygon p to the polygon heap and to the open cell
AddPolygon(s, p) ==
    [s EXCEPT !.polygons = Append(@, p),
              !.cells[s.cell].polygon_array = Append(@, Len(s.polygons) + 1),
              !.next_property = PropertiesOf("polygon", Len(s.polygons) + 1)]

\* repetition of an element: read and copied when the info bit is set
ElemRepetition(present, r) == IF present THEN ReadRepetition(r.rep) ELSE NoRepetition

\* variant of NextLayer that always takes the record's operand
RecordLayer(m, r) == r.layer

\* modal_layer / modal_datatype after if (info & 0x01) / if (info & 0x02)
NextLayer(m, r) == IF Bit(r.info, 1) THEN r.layer ELSE m.layer
NextDatatype(m, r) == IF Bit(r.info, 2) THEN r.datatype ELSE m.datatype

\* modal_geom_dim after if (info & 0x40) / if (info & 0x20)
NextGeomDim(m, r) ==
    <<IF Bit(r.info, 64) THEN ToUser(r.w) ELSE m.geom_dim[1],
      IF Bit(r.info, 32) THEN ToUser(r.h) ELSE m.geom_dim[2]>>

\* case RECTANGLE
OasRectangle(s, r) ==
    IF s.cell = 0 THEN Crash(s)
    ELSE
    LET info == r.info
        m == s.modal
        layer == NextLayer(m, r)
        datatype == NextDatatype(m, r)
        dim == NextGeomDim(m, r)
        pos == UpdatePos(m.absolute_pos, m.geom_pos, Bit(info, 16), Bit(info, 8), r)
        corner2 == <<pos[1] + dim[1],
                     pos[2] + (IF Bit(info, 128) THEN dim[1] ELSE dim[2])>>
        polygon == [rectangle(pos, corner2, layer, datatype) EXCEPT
                       !.repetition = ElemRepetition(Bit(info, 4), r)]
    IN  [AddPolygon(s, polygon) EXCEPT
            !.modal.layer = layer, !.modal.datatype = datatype,
            !.modal.geom_dim = dim, !.modal.geom_pos = pos,
            !.modal.repetition = IF Bit(info, 4) THEN ReadRepetition(r.rep) ELSE @]

\* oasis_read_point_list(in, factor, ...): the points scaled to user units
ReadPointList(pts) == [i \in DOMAIN pts |-> <<ToUser(pts[i][1]), ToUser(pts[i][2])>>]

\* case POLYGON
OasPolygon(s, r) ==
    IF s.cell = 0 THEN Crash(s)
    ELSE
    LET info == r.info
        m == s.modal
        layer == NextLayer(m, r)
        datatype == NextDatatype(m, r)
        points == IF Bit(info, 32) THEN ReadPointList(r.pts) ELSE m.polygon_points
        pos == UpdatePos(m.absolute_pos, m.geom_pos, Bit(info, 16), Bit(info, 8), r)
        rel == <<<<0, 0>>>> \o points
        polygon == [NewPolygon EXCEPT
                       !.layer = layer, !.datatype = datatype,
                       !.point_array = [i \in DOMAIN rel |-> VAdd(rel[i], pos)],
                       !.repetition = ElemRepetition(Bit(info, 4), r)]
    IN  [AddPolygon(s, polygon) EXCEPT
            !.modal.layer = layer, !.modal.datatype = datatype,
            !.modal.polygon_points = points, !.modal.geom_pos = pos,
            !.modal.repetition = IF Bit(info, 4) THEN ReadRepetition(r.rep) ELSE @]

\* path extension selected by two bits of the extension scheme
PathExtension(sel, old, halfwidth, explicit) ==
    CASE sel = 1 -> 0
      [] sel = 2 -> halfwidth
      [] sel = 3 -> ToUser(explicit)
      [] OTHER -> old

\* case PATH
OasPath(s, r) ==
    IF s.cell = 0 THEN Crash(s)
    ELSE
    LET info == r.info
        m == s.modal
        layer == NextLayer(m, r)
        datatype == NextDatatype(m, r)
        halfwidth == IF Bit(info, 64) THEN ToUser(r.w) ELSE m.path_halfwidth
        extensions ==
            IF Bit(info, 128)
            THEN <<PathExtension(r.ext % 4, m.path_extensions[1], halfwidth, r.a),
                   PathExtension((r.ext \div 4) % 4, m.path_extensions[2], halfwidth, r.b)>>
            ELSE m.path_extensions
        end_type ==
            IF extensions = <<0, 0>> THEN "Flush"
            ELSE IF extensions = <<halfwidth, halfwidth>> THEN "HalfWidth"
            ELSE "Extended"
        points == IF Bit(info, 32) THEN ReadPointList(r.pts) ELSE m.path_points
        pos == UpdatePos(m.absolute_pos, m.geom_pos, Bit(info, 16), Bit(info, 8), r)
        path == [NewFlexPath EXCEPT
                    !.gdsii_path = TRUE, !.scale_width = TRUE,
                    !.layer = layer, !.datatype = datatype,
                    !.half_width = halfwidth, !.end_type = end_type,
                    !.end_extensions = IF end_type = "Extended" THEN extensions ELSE <<0, 0>>,
                    !.spine = <<pos>> \o [i \in DOMAIN points |-> VAdd(points[i], pos)],
                    !.repetition = ElemRepetition(Bit(info, 4), r)]
    IN  [s EXCEPT !.flexpaths = Append(@, path),
                  !.cells[s.cell].flexpath_array = Append(@, Len(s.flexpaths) + 1),
                  !.next_property = PropertiesOf("flexpath", Len(s.flexpaths) + 1),
                  !.modal.layer = layer, !.modal.datatype = datatype,
                  !.modal.path_halfwidth = halfwidth,
                  !.modal.path_extensions = extensions,
                  !.modal.path_points = points, !.modal.geom_pos = pos,
                  !.modal.repetition = IF Bit(info, 4) THEN ReadRepetition(r.rep) ELSE @]

\* the four vertices of a TRAPEZOID record
TrapezoidPoints(vertical, pos, dim, delta_a, delta_b) ==
    IF vertical
    THEN <<pos, VAdd(pos, <<dim[1], -delta_a>>),
           VAdd(VAdd(pos, dim), <<0, -delta_b>>), VAdd(pos, <<0, dim[2]>>)>>
    ELSE <<VAdd(pos, <<0, dim[2]>>), VAdd(pos, <<-delta_a, 0>>),
           VAdd(pos, <<dim[1] - delta_b, 0>>), VAdd(pos, dim)>>

\* case TRAPEZOID_AB / TRAPEZOID_A / TRAPEZOID_B
OasTrapezoid(s, r) ==
    IF s.cell = 0 THEN Crash(s)
    ELSE
    LET info == r.info
        m == s.modal
        layer == NextLayer(m, r)
        datatype == NextDatatype(m, r)
        dim == NextGeomDim(m, r)
        delta_a == IF r.type = "TRAPEZOID_B" THEN 0 ELSE ToUser(r.a)
        delta_b == IF r.type = "TRAPEZOID_A" THEN 0 ELSE ToUser(r.b)
        pos == UpdatePos(m.absolute_pos, m.geom_pos, Bit(info, 16), Bit(info, 8), r)
        polygon == [NewPolygon EXCEPT
                       !.layer = layer, !.datatype = datatype,
                       !.point_array = TrapezoidPoints(Bit(info, 128), pos, dim,
                                                       delta_a, delta_b),
                       !.repetition = ElemRepetition(Bit(info, 4), r)]
    IN  [AddPolygon(s, polygon) EXCEPT
            !.modal.layer = layer, !.modal.datatype = datatype,
            !.modal.geom_dim = dim, !.modal.geom_pos = pos,
            !.modal.repetition = IF Bit(info, 4) THEN ReadRepetition(r.rep) ELSE @]

\* v[k] += (dx, dy), with k counted from 0 as in the source
Shift(v, k, dx, dy) == [v EXCEPT ![k + 1] = VAdd(@, <<dx, dy>>)]

\* the vertices of a CTRAPEZOID record: the base shape, then switch (type)
CTrapezoidPoints(t, pos, dim) ==
    LET w == dim[1]
        h == dim[2]
        v == IF t > 15 /\ t < 24
             THEN <<pos, pos, pos>>
             ELSE <<pos, VAdd(pos, <<w, 0>>), VAdd(pos, dim), VAdd(pos, <<0, h>>)>>
    IN  CASE t = 0 -> Shift(v, 2, -h, 0)
          [] t = 1 -> Shift(v, 1, -h, 0)
          [] t = 2 -> Shift(v, 3, h, 0)
          [] t = 3 -> Shift(v, 0, h, 0)
          [] t = 4 -> Shift(Shift(v, 2, -h, 0), 3, h, 0)
          [] t = 5 -> Shift(Shift(v, 0, h, 0), 1, -h, 0)
          [] t = 6 -> Shift(Shift(v, 1, -h, 0), 3, h, 0)
          [] t = 7 -> Shift(Shift(v, 0, h, 0), 2, -h, 0)
          [] t = 8 -> Shift(v, 2, 0, -w)
          [] t = 9 -> Shift(v, 3, 0, -w)
          [] t = 10 -> Shift(v, 1, 0, w)
          [] t = 11 -> Shift(v, 0, 0, w)
          [] t = 12 -> Shift(Shift(v, 1, w, 0), 2, -w, 0)
          [] t = 13 -> Shift(Shift(v, 0, w, 0), 3, -w, 0)
          [] t = 14 -> Shift(Shift(v, 1, w, 0), 3, -w, 0)
          [] t = 15 -> Shift(Shift(v, 0, w, 0), 2, -w, 0)
          [] t = 16 -> Shift(Shift(v, 1, w, 0), 2, 0, w)
          [] t = 17 -> Shift(Shift(v, 1, w, w), 2, 0, w)
          [] t = 18 -> Shift(Shift(v, 1, w, 0), 2, w, w)
          [] t = 19 -> Shift(Shift(Shift(v, 0, w, 0), 1, w, w), 2, 0, w)
          [] t = 20 -> Shift(Shift(v, 1, 2 * h, 0), 2, h, h)
          [] t = 21 -> Shift(Shift(Shift(v, 0, h, 0), 1, 2 * h, h), 2, 0, h)
          [] t = 22 -> Shift(Shift(v, 1, w, w), 2, 0, 2 * w)
          [] t = 23 -> Shift(Shift(Shift(v, 0, w, 0), 1, w, 2 * w), 2, 0, w)
          [] t = 25 -> [v EXCEPT ![3] = <<@[1], pos[2] + w>>, ![4] = <<@[1], pos[2] + w>>]
          [] OTHER -> v

\* case CTRAPEZOID
OasCTrapezoid(s, r) ==
    IF s.cell = 0 THEN Crash(s)
    ELSE
    LET info == r.info
        m == s.modal
        layer == NextLayer(m, r)
        datatype == NextDatatype(m, r)
        ctype == IF Bit(info, 128) THEN r.ctype ELSE m.ctrapezoid_type
        dim == NextGeomDim(m, r)
        pos == UpdatePos(m.absolute_pos, m.geom_pos, Bit(info, 16), Bit(info, 8), r)
        polygon == [NewPolygon EXCEPT
                       !.layer = layer, !.datatype = datatype,
                       !.point_array = CTrapezoidPoints(ctype, pos, dim),
                       !.repetition = ElemRepetition(Bit(info, 4), r)]
    IN  [AddPolygon(s, polygon) EXCEPT
            !.modal.layer = layer, !.modal.datatype = datatype,
            !.modal.ctrapezoid_type = ctype,
            !.modal.geom_dim = dim, !.modal.geom_pos = pos,
            !.modal.repetition = IF Bit(info, 4) THEN ReadRepetition(r.rep) ELSE @]

\* case CIRCLE
OasCircle(s, r) ==
    IF s.cell = 0 THEN Crash(s)
    ELSE
    LET info == r.info
        m == s.modal
        layer == NextLayer(m, r)
        datatype == NextDatatype(m, r)
        radius == IF Bit(info, 32) THEN ToUser(r.w) ELSE m.circle_radius
        pos == UpdatePos(m.absolute_pos, m.geom_pos, Bit(info, 16), Bit(info, 8), r)
        polygon == [ellipse(pos, radius, layer, datatype) EXCEPT
                       !.repetition = ElemRepetition(Bit(info, 4), r)]
    IN  [AddPolygon(s, polygon) EXCEPT
            !.modal.layer = layer, !.modal.datatype = datatype,
            !.modal.circle_radius = radius, !.modal.geom_pos = pos,
            !.modal.repetition = IF Bit(info, 4) THEN ReadRepetition(r.rep) ELSE @]

-----------------------------------------------------------------------------
(* Name tables, CBLOCK and END of read_oas *)

\* ByteArray{len, bytes, NULL}
ByteArray(bytes) == [bytes |-> bytes, properties |-> <<>>]

\* case CELLNAME_IMPLICIT / TEXTSTRING_IMPLICIT: table.append(ByteArray{len, bytes, NULL})
TableAppend(table, name) == Append(table, ByteArray(name))

\* case CELLNAME / TEXTSTRING: the table grows to ref_number + 1 entries, the new
\* slots below ref_number hold ByteArray{0, NULL, NULL}; then entry ref_number is set
TableSet(table, name, ref_number) ==
    LET size == IF ref_number >= Len(table) THEN ref_number + 1 ELSE Len(table)
    IN  [i \in 1..size |->
            IF i = ref_number + 1 THEN ByteArray(name)
            ELSE IF i <= Len(table) THEN table[i]
            ELSE ByteArray(NULLSTR)]

OasCellName(s, r) ==
    IF r.type = "CELLNAME_IMPLICIT"
    THEN [s EXCEPT !.cell_name_table = TableAppend(@, r.name),
                   !.next_property = PropertiesOf("cell_name", Len(s.cell_name_table) + 1)]
    ELSE [s EXCEPT !.cell_name_table = TableSet(@, r.name, r.num),
                   !.next_property = PropertiesOf("cell_name", r.num + 1)]

OasTextString(s, r) ==
    IF r.type = "TEXTSTRING_IMPLICIT"
    THEN [s EXCEPT !.label_text_table = TableAppend(@, r.name),
                   !.next_property = PropertiesOf("label_text", Len(s.label_text_table) + 1)]
    ELSE [s EXCEPT !.label_text_table = TableSet(@, r.name, r.num),
                   !.next_property = PropertiesOf("label_text", r.num + 1)]

\* case PROPNAME_IMPLICIT / PROPNAME
OasPropName(s, r) ==
    IF r.type = "PROPNAME_IMPLICIT"
    THEN [s EXCEPT !.fixup.property_name_table = TableAppend(@, r.name),
                   !.next_property =
                       PropertiesOf("property_name",
                                    Len(s.fixup.property_name_table) + 1)]
    ELSE [s EXCEPT !.fixup.property_name_table = TableSet(@, r.name, r.num),
                   !.next_property = PropertiesOf("property_name", r.num + 1)]

\* case PROPSTRING_IMPLICIT / PROPSTRING
OasPropString(s, r) ==
    IF r.type = "PROPSTRING_IMPLICIT"
    THEN [s EXCEPT !.fixup.property_value_table = TableAppend(@, r.name),
                   !.next_property =
                       PropertiesOf("property_value",
                                    Len(s.fixup.property_value_table) + 1)]
    ELSE [s EXCEPT !.fixup.property_value_table = TableSet(@, r.name, r.num),
                   !.next_property = PropertiesOf("property_value", r.num + 1)]

\* *next_property: the property list next_property ends
NextPropertyList(s) ==
    LET np == s.next_property
    IN  CASE np.kind = "cell" -> s.cells[np.idx].properties
          [] np.kind = "reference" -> s.references[np.idx].properties
          [] np.kind = "label" -> s.labels[np.idx].properties
          [] np.kind = "polygon" -> s.polygons[np.idx].properties
          [] np.kind = "flexpath" -> s.flexpaths[np.idx].properties
          [] np.kind = "cell_name" -> s.cell_name_table[np.idx].properties
          [] np.kind = "label_text" -> s.label_text_table[np.idx].properties
          [] np.kind = "property_name" -> s.fixup.property_name_table[np.idx].properties
          [] np.kind = "property_value" -> s.fixup.property_value_table[np.idx].properties
          [] OTHER -> s.library.properties

\* *next_property = property; next_property = &property->next
LinkProperty(s, property) ==
    LET np == s.next_property
    IN  CASE np.kind = "cell" -> [s EXCEPT !.cells[np.idx].properties = Append(@, property)]
          [] np.kind = "reference" ->
                [s EXCEPT !.references[np.idx].properties = Append(@, property)]
          [] np.kind = "label" -> [s EXCEPT !.labels[np.idx].properties = Append(@, property)]
          [] np.kind = "polygon" ->
                [s EXCEPT !.polygons[np.idx].properties = Append(@, property)]
          [] np.kind = "flexpath" ->
                [s EXCEPT !.flexpaths[np.idx].properties = Append(@, property)]
          [] np.kind = "cell_name" ->
                [s EXCEPT !.cell_name_table[np.idx].properties = Append(@, property)]
          [] np.kind = "label_text" ->
                [s EXCEPT !.label_text_table[np.idx].properties = Append(@, property)]
          [] np.kind = "property_name" ->
                [s EXCEPT !.fixup.property_name_table[np.idx].properties =
                              Append(@, property)]
          [] np.kind = "property_value" ->
                [s EXCEPT !.fixup.property_value_table[np.idx].properties =
                              Append(@, property)]
          [] OTHER -> [s EXCEPT !.library.properties = Append(@, property)]

\* (char*)n: a reference number held in the name field of a Property
NumberAsName(n) == "(char*)" \o ToString(n)

\* (uint64_t)property->name of a name field that holds a reference number
NameAsNumber(name) == CHOOSE n \in 0..15 : NumberAsName(n) = name

\* a is an entry of the fix-up list
Contains(list, a) == \E i \in DOMAIN list : list[i] = a

\* the data types of a property value that refer to the property-string table
ReferenceTypes == {"ReferenceA", "ReferenceB", "ReferenceN"}

\* switch (data_type): the PropertyValue allocated at address a for value v
PropertyValueOf(v, a) ==
    IF v.data_type \in {"AString", "BString", "NString"}
    THEN [type |-> "String", unsigned_integer |-> 0, bytes |-> v.bytes, at |-> a]
    ELSE [type |-> "UnsignedInteger", unsigned_integer |-> v.v, bytes |-> NULLSTR,
          at |-> a]

\* property_values_copy(modal_property_value_list), the copies allocated from
\* address a + 1 on
PropertyValuesCopy(list, a) == [i \in DOMAIN list |-> [list[i] EXCEPT !.at = a + i]]

\* variant of CopiedUnfinished that enters no copy in the fix-up list
CopiedUnfinishedNone(list, unfinished, a) == <<>>

\* the copies of the modal value list that go to unfinished_property_value:
\* those of an UnsignedInteger source the list contains
CopiedUnfinished(list, unfinished, a) ==
    LET RECURSIVE From(_)
        From(i) ==
            IF i > Len(list) THEN <<>>
            ELSE (IF list[i].type = "UnsignedInteger" /\ Contains(unfinished, list[i].at)
                  THEN <<a + i>> ELSE <<>>) \o From(i + 1)
    IN  From(1)

\* the values read of an explicit list that go to unfinished_property_value
ReadUnfinished(read, a) ==
    LET RECURSIVE From(_)
        From(i) ==
            IF i > Len(read) THEN <<>>
            ELSE (IF read[i].data_type \in ReferenceTypes THEN <<a + i>> ELSE <<>>)
                     \o From(i + 1)
    IN  From(1)

\* case PROPERTY / LAST_PROPERTY.  modal.property is modal_property->name, NULLSTR
\* while modal_property is NULL; the Property is allocated at address at and its
\* values behind it.
OasProperty(s, r) ==
    LET info == IF r.type = "LAST_PROPERTY" THEN 8 ELSE r.info
        count == info \div 16
        f == s.fixup
        at == f.allocated + 1
    IN  IF ~Bit(info, 4) /\ s.modal.property = NULLSTR THEN Crash(s)
        ELSE LET by_number == Bit(info, 4) /\ Bit(info, 2)
                 unfinished == IF Bit(info, 4) THEN by_number
                               ELSE f.modal_property_unfinished
                 name == IF by_number THEN NumberAsName(r.num)
                         ELSE IF Bit(info, 4) THEN r.name
                         ELSE s.modal.property
                 read == SubSeq(r.values, 1, count)
                 value == IF Bit(info, 8)
                          THEN PropertyValuesCopy(s.modal.property_value_list, at)
                          ELSE [i \in DOMAIN read |-> PropertyValueOf(read[i], at + i)]
                 entered == IF Bit(info, 8)
                            THEN CopiedUnfinished(s.modal.property_value_list,
                                                  f.unfinished_property_value, at)
                            ELSE ReadUnfinished(read, at)
             IN  [LinkProperty(s, [name |-> name, value |-> value, at |-> at]) EXCEPT
                     !.modal.property = name,
                     !.modal.property_value_list = IF Bit(info, 8) THEN @ ELSE value,
                     !.fixup.modal_property_unfinished = unfinished,
                     !.fixup.unfinished_property_name =
                         IF unfinished THEN Append(@, at) ELSE @,
                     !.fixup.unfinished_property_value = @ \o entered,
                     !.fixup.allocated = at + Len(value)]

\* zlib's raw DEFLATE of a run of records and its inverse
Reverse(seq) == [i \in 1..Len(seq) |-> seq[Len(seq) + 1 - i]]
Deflate(seq) == [z |-> Reverse(seq)]
Inflate(payload) == Reverse(payload.z)

\* variant of OasCblock that drops the compressed records
OasCblockSkip(s, r) == s

\* case CBLOCK
OasCblock(s, r) ==
    IF r.num # 0
    THEN [s EXCEPT !.log = @ \cup {"CBLOCK compression method not supported"}]
    ELSE LET data == Inflate(r.payload)
             size == IF r.usize < Len(data) THEN r.usize ELSE Len(data)
         IN  [s EXCEPT !.in_data = SubSeq(data, 1, size),
                       !.log = IF r.usize = Len(data) THEN @
                               ELSE @ \cup {"Unable to decompress CBLOCK"}]

\* variant of Lookup that reads the first entry of the table
LookupFirst(table, n, ub) == IF table # <<>> THEN table[1].bytes ELSE ub

\* table.items + n is a live entry with bytes
ValidEntry(table, n) == n + 1 \in DOMAIN table /\ table[n + 1].bytes # NULLSTR

\* the bytes found at table.items + n; outside the table or in an empty slot the
\* read is undefined and finds ub
Lookup(table, n, ub) == IF ValidEntry(table, n) THEN table[n + 1].bytes ELSE ub

\* Map<Cell*> map after map.set(cell->name, cell) over cell_array in order
CellMap(cell_array, names) ==
    LET keys == {names[cell_array[i]] : i \in DOMAIN cell_array}
    IN  [k \in keys |->
            LET last == CHOOSE i \in DOMAIN cell_array :
                            /\ names[cell_array[i]] = k
                            /\ \A j \in DOMAIN cell_array : names[cell_array[j]] = k => j <= i
            IN  cell_array[last]]

\* the references of the library's cells in the order the fix-up visits them
RefOrder(s) ==
    LET RECURSIVE Collect(_)
        Collect(i) == IF i > Len(s.library.cell_array) THEN <<>>
                      ELSE s.cells[s.library.cell_array[i]].reference_array \o Collect(i + 1)
    IN  Collect(1)

\* every Property the reader state holds
AllProperties(s) ==
    LET Of(heap) ==
            LET RECURSIVE From(_)
                From(i) == IF i > Len(heap) THEN <<>>
                           ELSE heap[i].properties \o From(i + 1)
            IN  From(1)
    IN  s.library.properties \o Of(s.cells) \o Of(s.references) \o Of(s.labels)
            \o Of(s.polygons) \o Of(s.flexpaths) \o Of(s.cell_name_table)
            \o Of(s.label_text_table) \o Of(s.fixup.property_name_table)
            \o Of(s.fixup.property_value_table)

\* the number of entries of the fix-up list that point at address a
Occurrences(list, a) == Cardinality({i \in DOMAIN list : list[i] = a})

\* the first pass of the property-name loop over property p reads an entry
\* outside the table, or a later pass reads the name the first one stored
NameUndefined(s, p) ==
    LET k == Occurrences(s.fixup.unfinished_property_name, p.at)
    IN  \/ k > 1
        \/ k = 1 /\ ~ValidEntry(s.fixup.property_name_table, NameAsNumber(p.name))

\* the same for a value of the property-value loop
ValueUndefined(s, v) ==
    LET k == Occurrences(s.fixup.unfinished_property_value, v.at)
    IN  \/ k > 1
        \/ k = 1 /\ ~ValidEntry(s.fixup.property_value_table, v.unsigned_integer)

\* the property-name loop of case END on property p
FixName(s, p, ub) ==
    IF ~Contains(s.fixup.unfinished_property_name, p.at) THEN p
    ELSE [p EXCEPT !.name =
             IF NameUndefined(s, p) THEN ub
             ELSE Lookup(s.fixup.property_name_table, NameAsNumber(p.name), ub)]

\* the property-value loop of case END on value v
FixValue(s, v, ub) ==
    IF ~Contains(s.fixup.unfinished_property_value, v.at) THEN v
    ELSE [v EXCEPT !.type = "String",
                   !.bytes = IF ValueUndefined(s, v) THEN ub
                             ELSE Lookup(s.fixup.property_value_table,
                                         v.unsigned_integer, ub)]

\* both loops on the properties of one list
FixProperties(s, properties, ub) ==
    [i \in DOMAIN properties |->
        [FixName(s, properties[i], ub) EXCEPT
            !.value = [j \in DOMAIN @ |-> FixValue(s, @[j], ub)]]]

\* both loops on every list of the reader state; the lists of s.fixup say
\* which objects the loops visit
PropertyFixUp(s, ub) ==
    LET Fix(heap) == [i \in DOMAIN heap |->
                         [heap[i] EXCEPT !.properties = FixProperties(s, @, ub)]]
    IN  [s EXCEPT !.library.properties = FixProperties(s, @, ub),
                  !.cells = Fix(@), !.references = Fix(@), !.labels = Fix(@),
                  !.polygons = Fix(@), !.flexpaths = Fix(@),
                  !.cell_name_table = Fix(@), !.label_text_table = Fix(@),
                  !.fixup.property_name_table = Fix(@),
                  !.fixup.property_value_table = Fix(@)]

\* case END: some lookup of the fix-up leaves its table
EndUndefined(s) ==
    \/ \E i \in DOMAIN AllProperties(s) :
          \/ NameUndefined(s, AllProperties(s)[i])
          \/ \E j \in DOMAIN AllProperties(s)[i].value :
                ValueUndefined(s, AllProperties(s)[i].value[j])
    \/ \E i \in DOMAIN s.cells :
          s.cells[i].name = NULLSTR /\ ~ValidEntry(s.cell_name_table, s.cells[i].owner)
    \/ \E i \in DOMAIN s.labels :
          s.labels[i].text = NULLSTR /\ ~ValidEntry(s.label_text_table, s.labels[i].owner)
    \/ \E i \in DOMAIN s.references :
          s.references[i].type = "Cell" /\ ~ValidEntry(s.cell_name_table, s.references[i].cell)

\* variant of LinkProperties that puts the table's properties last
LinkPropertiesAfter(head, rest) == rest \o head

\* last->next = rest; properties = head: the list head followed by the list rest
LinkProperties(head, rest) == head \o rest

\* the properties of table entry n, NULL outside the table
EntryProperties(table, n) == IF ValidEntry(table, n) THEN table[n + 1].properties ELSE <<>>

\* cell i is the first cell of cell_array that waits for the name of its number
FirstOfNumber(s, i) ==
    \A j \in 1..(i - 1) :
        ~(s.cells[j].name = NULLSTR /\ s.cells[j].owner = s.cells[i].owner)

\* cell_name_table after the first loop: cell_name->properties = NULL for the
\* entries a cell took its properties from
TableAfterFixUp(s) ==
    [n \in DOMAIN s.cell_name_table |->
        IF \E i \in DOMAIN s.cells : s.cells[i].name = NULLSTR /\ s.cells[i].owner = n - 1
        THEN [s.cell_name_table[n] EXCEPT !.properties = <<>>]
        ELSE s.cell_name_table[n]]

\* variant of OasEnd without the fix-up loops
OasEndNoFix(s, ub) == [s EXCEPT !.status = "at_end", !.library.name = "LIB"]

\* case END
OasEnd(s, ub) ==
    IF EndUndefined(s) /\ ub = "crash" THEN Crash(s)
    ELSE
    LET cells2 == [i \in DOMAIN s.cells |->
                      IF s.cells[i].name = NULLSTR
                      THEN [s.cells[i] EXCEPT
                               !.name = Lookup(s.cell_name_table, s.cells[i].owner, ub),
                               !.owner = 0,
                               !.properties =
                                   IF FirstOfNumber(s, i)
                                   THEN LinkProperties(
                                            EntryProperties(s.cell_name_table,
                                                            s.cells[i].owner), @)
                                   ELSE @]
                      ELSE s.cells[i]]
        labels2 == [i \in DOMAIN s.labels |->
                       IF s.labels[i].text = NULLSTR
                       THEN [s.labels[i] EXCEPT
                                !.text = Lookup(s.label_text_table, s.labels[i].owner, ub),
                                !.owner = 0,
                                !.properties =
                                    LinkProperties(EntryProperties(s.label_text_table,
                                                                   s.labels[i].owner), @)]
                       ELSE s.labels[i]]
        map == CellMap(s.library.cell_array, [i \in DOMAIN cells2 |-> cells2[i].name])
        Target(ref) == IF ref.type = "Cell"
                       THEN MapGet(map, Lookup(s.cell_name_table, ref.cell, ub))
                       ELSE MapGet(map, ref.name)
        references2 == [i \in DOMAIN s.references |->
                           [s.references[i] EXCEPT
                               !.type = "Cell", !.cell = Target(s.references[i]),
                               !.name = NULLSTR]]
        order == RefOrder(s)
        byname == {i \in DOMAIN order : s.references[order[i]].type = "Name"}
        lastname == CHOOSE i \in byname : \A j \in byname : j <= i
        cell2 == IF byname # {} THEN references2[order[lastname]].cell
                 ELSE IF s.library.cell_array # <<>> THEN Last(s.library.cell_array)
                 ELSE s.cell
    IN  PropertyFixUp([s EXCEPT !.status = "at_end",
                                !.library.name = "LIB",
                                !.cells = cells2, !.labels = labels2,
                                !.references = references2,
                                !.cell_name_table = TableAfterFixUp(s),
                                !.cell = cell2], ub)

\* after the loop: fclose, the name tables are cleared, return library
OasFinish(s) ==
    [s EXCEPT !.status = "returned", !.cell_name_table = <<>>, !.label_text_table = <<>>,
              !.fixup.property_name_table = <<>>, !.fixup.property_value_table = <<>>,
              !.fixup.unfinished_property_name = <<>>,
              !.fixup.unfinished_property_value = <<>>]

\* records the reader skips with a message
OasIgnored(s, r) == [s EXCEPT !.log = @ \cup {"Record ignored: " \o r.type}]

\* switch (record): one record of the file or of the inflated buffer
OasRecord(s, r, ub) ==
    CASE r.type \in {"CELL", "CELL_REF_NUM"} -> OasCell(s, r)
      [] r.type \in {"XYABSOLUTE", "XYRELATIVE"} -> OasXY(s, r)
      [] r.type \in {"PLACEMENT", "PLACEMENT_TRANSFORM"} -> OasPlacement(s, r)
      [] r.type = "TEXT" -> OasText(s, r)
      [] r.type = "RECTANGLE" -> OasRectangle(s, r)
      [] r.type = "POLYGON" -> OasPolygon(s, r)
      [] r.type = "PATH" -> OasPath(s, r)
      [] r.type \in {"TRAPEZOID_AB", "TRAPEZOID_A", "TRAPEZOID_B"} -> OasTrapezoid(s, r)
      [] r.type = "CTRAPEZOID" -> OasCTrapezoid(s, r)
      [] r.type = "CIRCLE" -> OasCircle(s, r)
      [] r.type \in {"CELLNAME", "CELLNAME_IMPLICIT"} -> OasCellName(s, r)
      [] r.type \in {"TEXTSTRING", "TEXTSTRING_IMPLICIT"} -> OasTextString(s, r)
      [] r.type \in {"PROPNAME", "PROPNAME_IMPLICIT"} -> OasPropName(s, r)
      [] r.type \in {"PROPSTRING", "PROPSTRING_IMPLICIT"} -> OasPropString(s, r)
      [] r.type \in {"PROPERTY", "LAST_PROPERTY"} -> OasProperty(s, r)
      [] r.type = "CBLOCK" -> OasCblock(s, r)
      [] r.type = "END" -> OasEnd(s, ub)
      [] r.type = "PAD" -> s
      [] OTHER -> OasIgnored(s, r)

-----------------------------------------------------------------------------
(* read_gds: one handler per record of the switch *)

EmptyLibrary == [name |-> NULLSTR, cell_array |-> <<>>, properties |-> <<>>]

\* the bytes of a Cell object read as a string: reference->name after the union
\* was overwritten with the cell pointer; no cell is named so
PtrKey == "<cell object>"

\* case BGNSTR
GdsBgnStr(cs) == Append(cs, NewCell)

\* case SREF / AREF: allocate_clear, magnification = 1
GdsNewReference == [NewReference EXCEPT !.magnification = 1]

\* the second loop of case ENDLIB over the references in visiting order
RECURSIVE GdsResolve(_, _, _, _)
GdsResolve(refs, order, i, map) ==
    IF i > Len(order) THEN refs
    ELSE LET ref == refs[order[i]]
             key == IF ref.type = "Name" THEN ref.name ELSE PtrKey
             cp == MapGet(map, key)
         IN  GdsResolve(IF cp # 0
                        THEN [refs EXCEPT ![order[i]] =
                                 [@ EXCEPT !.type = "Cell", !.cell = cp, !.name = NULLSTR]]
                        ELSE refs,
                        order, i + 1, map)

\* a visited reference never received an SNAME: map.get(NULL)
GdsNullName(refs, order) ==
    \E i \in DOMAIN order : refs[order[i]].type = "Cell" /\ refs[order[i]].cell = 0

-----------------------------------------------------------------------------
(* Input files.  The k-th element record of a file carries operands derived *)
(* from k, so that a reused modal value differs from a fresh one.           *)

CellNames == <<"A", "B">>
TextNames == <<"S1", "S2", "S3", "S4">>

\* 1 + number of elements read so far
Seed == 1 + Len(polygons) + Len(flexpaths) + Len(references) + Len(labels)

RepOf(k) == [type |-> "Rectangular", columns |-> 2, rows |-> k + 1,
             spacing |-> <<k, 1>>]

\* a record of the given type and info byte with the operands of seed k
Rec(type, info, k) ==
    [NoRec EXCEPT !.type = type, !.info = info, !.layer = k, !.datatype = k + 1,
                  !.w = k, !.h = k + 1, !.a = 1, !.b = -1, !.x = k, !.y = -k,
                  !.pts = <<<<k, 0>>, <<k, k>>>>, !.rep = RepOf(k), !.mag = 2,
                  !.angle = 45 * k, !.ctype = 15 + k, !.ext = 7,
                  !.name = "B", !.num = 1]

CellRecords ==
    IF Len(cells) >= Len(CellNames) THEN {}
    ELSE {[NoRec EXCEPT !.type = "CELL", !.name = CellNames[Len(cells) + 1]]}
         \cup (IF file_kind = "placement"
               THEN {[NoRec EXCEPT !.type = "CELL_REF_NUM", !.num = Len(cells)]}
               ELSE {})
         \cup (IF file_kind = "cellname"
               THEN {[NoRec EXCEPT !.type = "CELL_REF_NUM", !.num = n] : n \in {0, 1}}
               ELSE {})

XYRecords == {[NoRec EXCEPT !.type = "XYABSOLUTE"], [NoRec EXCEPT !.type = "XYRELATIVE"]}

PlacementInfos == {176, 248, 35, 20}
PlacementTransformInfos == {182}

PlacementRecords ==
    {Rec("PLACEMENT", i, Seed) : i \in PlacementInfos}
    \cup {Rec("PLACEMENT_TRANSFORM", i, Seed) : i \in PlacementTransformInfos}

TextInfos == {91, 112, 12, 0}

TextRecords ==
    {[Rec("TEXT", i, Seed) EXCEPT !.name = TextNames[Seed]] : i \in TextInfos}

RectangleInfos == {123, 0, 128, 16, 12}
RectangleRecords == {Rec("RECTANGLE", i, Seed) : i \in RectangleInfos}

TrapezoidRecords ==
    {Rec("TRAPEZOID_AB", 251, Seed), Rec("TRAPEZOID_AB", 0, Seed),
     Rec("TRAPEZOID_A", 16, Seed), Rec("TRAPEZOID_B", 136, Seed)}

CTrapezoidInfos == {251, 0}
CTrapezoidRecords == {Rec("CTRAPEZOID", i, Seed) : i \in CTrapezoidInfos}

PolygonInfos == {59, 0, 16, 12}
PolygonRecords == {Rec("POLYGON", i, Seed) : i \in PolygonInfos}

PathInfos == {251, 0, 136}
PathRecords ==
    {[Rec("PATH", i, Seed) EXCEPT !.ext = IF i = 136 THEN 10 ELSE 7] : i \in PathInfos}

CircleInfos == {59, 0, 16}
CircleRecords == {Rec("CIRCLE", i, Seed) : i \in CircleInfos}

CellNameRecords ==
    IF Len(cell_name_table) >= Len(CellNames) THEN {}
    ELSE {[NoRec EXCEPT !.type = "CELLNAME_IMPLICIT",
                        !.name = CellNames[Len(cell_name_table) + 1]],
          [NoRec EXCEPT !.type = "CELLNAME", !.name = "B", !.num = 1]}

TextStringRecords ==
    IF Len(label_text_table) >= 2 THEN {}
    ELSE {[NoRec EXCEPT !.type = "TEXTSTRING_IMPLICIT", !.name = "S9"],
          [NoRec EXCEPT !.type = "TEXTSTRING", !.name = "S8", !.num = 1]}

\* a CBLOCK record around the given records
CblockOf(records) ==
    [NoRec EXCEPT !.type = "CBLOCK", !.num = 0, !.usize = Len(records),
                  !.payload = Deflate(records), !.csize = Len(records)]

CblockRecords ==
    {CblockOf(<<Rec("RECTANGLE", 123, Seed)>>),
     [NoRec EXCEPT !.type = "CBLOCK", !.num = 1]}
    \cup (IF Seed + 1 <= MaxElems
          THEN {CblockOf(<<Rec("RECTANGLE", 123, Seed), Rec("RECTANGLE", 0, Seed + 1)>>)}
          ELSE {})

\* outcomes of an undefined table read at END: a fault, or the bytes found
UBOutcomes == {"crash", "A", "<junk>"}

-----------------------------------------------------------------------------
(* The readers as state machines: one step per record *)

\* the reader's state as one value, and its assignment to the variables
Cur ==
    [status |-> status, log |-> log, library |-> library, cells |-> cells,
     polygons |-> polygons, flexpaths |-> flexpaths, references |-> references,
     labels |-> labels, cell |-> cell, modal |-> modal,
     cell_name_table |-> cell_name_table, label_text_table |-> label_text_table,
     in_data |-> in_data, next_property |-> next_property, fixup |-> fixup]

SetState(s) ==
    /\ status' = s.status
    /\ log' = s.log
    /\ library' = s.library
    /\ cells' = s.cells
    /\ polygons' = s.polygons
    /\ flexpaths' = s.flexpaths
    /\ references' = s.references
    /\ labels' = s.labels
    /\ cell' = s.cell
    /\ modal' = s.modal
    /\ cell_name_table' = s.cell_name_table
    /\ label_text_table' = s.label_text_table
    /\ in_data' = s.in_data
    /\ next_property' = s.next_property
    /\ fixup' = s.fixup

\* oasis_read: the next record comes out of the inflated buffer while it holds
\* one, and out of the file otherwise
FromBuffer(s) == s.in_data # <<>>
Consume(s) == IF FromBuffer(s) THEN [s EXCEPT !.in_data = Tail(@)] ELSE s

\* names of the properties a file attaches to a table entry and to an object
PropertyNames == [table |-> <<"T1", "T2">>, object |-> <<"O1">>]

\* PROPERTY with an explicit name and one value (info 0x14), and LAST_PROPERTY
PropertyRecords ==
    LET np == next_property
        held == Len(NextPropertyList(Cur))
        names == IF np.kind \in {"cell_name", "label_text"} THEN PropertyNames.table
                 ELSE PropertyNames.object
        wanted == \/ file_kind = "cellname" /\ np.kind \in {"cell", "cell_name"}
                  \/ file_kind = "text" /\ np.kind \in {"label", "label_text"}
    IN  IF ~wanted \/ held >= Len(names) THEN {}
        ELSE {[NoRec EXCEPT !.type = "PROPERTY", !.info = 20, !.name = names[held + 1],
                            !.values = <<[data_type |-> "UnsignedInteger", v |-> held + 1,
                                           bytes |-> NULLSTR]>>]}
             \cup (IF np.kind = "cell_name" /\ held = 0
                   THEN {[NoRec EXCEPT !.type = "LAST_PROPERTY"]}
                   ELSE {})

\* while (oasis_read(&record, 1, 1, in) > 0) switch (record): one iteration
ReadOas(r, ub) ==
    /\ fn = "read_oas"
    /\ status = "reading" \/ (status = "at_end" /\ in_data # <<>>)
    /\ in_data # <<>> => r = Head(in_data)
    /\ SetState(OasRecord(Consume(Cur), r, ub))
    /\ rec' = r
    /\ UNCHANGED <<fn, gds_polygon, gds_path, reference, gds_label, file_kind, gds, lib_in, files,
                   libs_out, out, wr, io>>

\* the records the file may hold next, or the one the buffer holds
Upcoming(types, fromfile) ==
    IF in_data # <<>> THEN {r \in {Head(in_data)} : r.type \in types} ELSE fromfile

ElemRoom == Seed <= MaxElems
TablesStarted == cell_name_table # <<>> \/ label_text_table # <<>>
Body(kinds) == file_kind \in kinds /\ ElemRoom /\ ~TablesStarted

ReadCell ==
    \E r \in Upcoming({"CELL", "CELL_REF_NUM"},
                   IF TablesStarted /\ file_kind # "cellname" THEN {} ELSE CellRecords) :
        ReadOas(r, "crash")

ReadXY ==
    \E r \in Upcoming({"XYABSOLUTE", "XYRELATIVE"},
                   IF ElemRoom /\ ~TablesStarted /\ file_kind # "cellname"
                   THEN XYRecords ELSE {}) :
        ReadOas(r, "crash")

ReadPlacement ==
    \E r \in Upcoming({"PLACEMENT", "PLACEMENT_TRANSFORM"},
                   IF Body({"placement"}) THEN PlacementRecords ELSE {}) :
        ReadOas(r, "crash")

ReadText ==
    \E r \in Upcoming({"TEXT"}, IF Body({"text"}) THEN TextRecords ELSE {}) :
        ReadOas(r, "crash")

ReadRectangle ==
    \E r \in Upcoming({"RECTANGLE"}, IF Body({"rect"}) THEN RectangleRecords ELSE {}) :
        ReadOas(r, "crash")

ReadTrapezoid ==
    \E r \in Upcoming({"TRAPEZOID_AB", "TRAPEZOID_A", "TRAPEZOID_B"},
                   IF Body({"trap"}) THEN TrapezoidRecords ELSE {}) :
        ReadOas(r, "crash")

ReadCTrapezoid ==
    \E r \in Upcoming({"CTRAPEZOID"}, IF Body({"trap"}) THEN CTrapezoidRecords ELSE {}) :
        ReadOas(r, "crash")

ReadPolygon ==
    \E r \in Upcoming({"POLYGON"}, IF Body({"poly"}) THEN PolygonRecords ELSE {}) :
        ReadOas(r, "crash")

ReadPath ==
    \E r \in Upcoming({"PATH"}, IF Body({"poly"}) THEN PathRecords ELSE {}) :
        ReadOas(r, "crash")

ReadCircle ==
    \E r \in Upcoming({"CIRCLE"}, IF Body({"poly"}) THEN CircleRecords ELSE {}) :
        ReadOas(r, "crash")

ReadCellName ==
    \E r \in Upcoming({"CELLNAME", "CELLNAME_IMPLICIT"},
                   IF file_kind \in {"placement", "cellname"}
                   THEN CellNameRecords ELSE {}) :
        ReadOas(r, "crash")

ReadTextString ==
    \E r \in Upcoming({"TEXTSTRING", "TEXTSTRING_IMPLICIT"},
                   IF file_kind = "text" THEN TextStringRecords ELSE {}) :
        ReadOas(r, "crash")

ReadProperty ==
    \E r \in Upcoming({"PROPERTY", "LAST_PROPERTY"},
                   IF status = "reading" THEN PropertyRecords ELSE {}) :
        ReadOas(r, "crash")

ReadCblock ==
    \E r \in Upcoming({"CBLOCK"}, IF Body({"rect"}) THEN CblockRecords ELSE {}) :
        ReadOas(r, "crash")

ReadEnd ==
    \E r \in Upcoming({"END"}, {[NoRec EXCEPT !.type = "END"]}) :
        \E ub \in UBOutcomes : ReadOas(r, ub)

\* the loop ends at the end of the file; the tables are cleared; return library
OasReturn ==
    /\ fn = "read_oas"
    /\ status \in {"reading", "at_end"}
    /\ in_data = <<>>
    /\ SetState(OasFinish(Cur))
    /\ rec' = [NoRec EXCEPT !.type = "EOF"]
    /\ UNCHANGED <<fn, gds_polygon, gds_path, reference, gds_label, file_kind, gds, lib_in, files,
                   libs_out, out, wr, io>>

NextOas ==
    \/ ReadCell
    \/ ReadXY
    \/ ReadPlacement
    \/ ReadText
    \/ ReadRectangle
    \/ ReadTrapezoid
    \/ ReadCTrapezoid
    \/ ReadPolygon
    \/ ReadPath
    \/ ReadCircle
    \/ ReadCellName
    \/ ReadTextString
    \/ ReadProperty
    \/ ReadCblock
    \/ ReadEnd
    \/ OasReturn

\* read_gds: the variables no record handler touches
GdsFrame ==
    UNCHANGED <<fn, log, modal, cell_name_table, label_text_table, in_data, fixup,
                next_property, file_kind, gds, lib_in, files, libs_out, out, wr, io>>

GdsRec(type, name) == [NoRec EXCEPT !.type = type, !.name = name]

GdsReading == fn = "read_gds" /\ status = "reading"

\* case BGNSTR
ReadBgnStr ==
    /\ GdsReading
    /\ Len(cells) < (IF file_kind = "gds" THEN Len(CellNames) ELSE 1)
    /\ file_kind = "gds_state" => rec.type \in {"START", "UNITS"}
    /\ cells' = GdsBgnStr(cells)
    /\ cell' = Len(cells) + 1
    /\ rec' = GdsRec("BGNSTR", NULLSTR)
    /\ UNCHANGED <<status, library, polygons, flexpaths, references, labels,
                   gds_polygon, gds_path, reference, gds_label>>
    /\ GdsFrame

\* case STRNAME
ReadStrName ==
    /\ GdsReading
    /\ Len(library.cell_array) < Len(CellNames)
    /\ file_kind = "gds_state" => rec.type = "BGNSTR"
    /\ \E name \in {CellNames[i] : i \in DOMAIN CellNames} :
          /\ file_kind = "gds" \/ name = CellNames[1]
          /\ IF cell # 0
             THEN /\ cells' = [cells EXCEPT ![cell].name = name]
                  /\ library' = [library EXCEPT !.cell_array = Append(@, cell)]
             ELSE UNCHANGED <<cells, library>>
          /\ rec' = GdsRec("STRNAME", name)
    /\ UNCHANGED <<status, cell, polygons, flexpaths, references, labels,
                   gds_polygon, gds_path, reference, gds_label>>
    /\ GdsFrame

\* case ENDSTR
ReadEndStr ==
    /\ GdsReading
    /\ file_kind = "gds"
    /\ rec' = GdsRec("ENDSTR", NULLSTR)
    /\ UNCHANGED <<status, library, cells, cell, polygons, flexpaths, references, labels,
                   gds_polygon, gds_path, reference, gds_label>>
    /\ GdsFrame

\* case BOUNDARY / BOX
ReadBoundary ==
    /\ GdsReading
    /\ file_kind \in {"gds_elements", "gds_state"}
    /\ Seed <= MaxElems
    /\ polygons' = Append(polygons, NewPolygon)
    /\ gds_polygon' = Len(polygons) + 1
    /\ IF cell # 0
       THEN cells' = [cells EXCEPT ![cell].polygon_array = Append(@, Len(polygons) + 1)]
       ELSE UNCHANGED cells
    /\ rec' = GdsRec("BOUNDARY", NULLSTR)
    /\ UNCHANGED <<status, library, cell, flexpaths, references, labels,
                   gds_path, reference, gds_label>>
    /\ GdsFrame

\* case PATH
ReadGdsPath ==
    /\ GdsReading
    /\ file_kind \in {"gds_elements", "gds_state"}
    /\ Seed <= MaxElems
    /\ flexpaths' = Append(flexpaths, [NewFlexPath EXCEPT !.gdsii_path = TRUE])
    /\ gds_path' = Len(flexpaths) + 1
    /\ IF cell # 0
       THEN cells' = [cells EXCEPT ![cell].flexpath_array = Append(@, Len(flexpaths) + 1)]
       ELSE UNCHANGED cells
    /\ rec' = GdsRec("PATH", NULLSTR)
    /\ UNCHANGED <<status, library, cell, polygons, references, labels,
                   gds_polygon, reference, gds_label>>
    /\ GdsFrame

\* case SREF / AREF
ReadSref ==
    /\ GdsReading
    /\ Seed <= MaxElems
    /\ references' = Append(references, GdsNewReference)
    /\ reference' = Len(references) + 1
    /\ IF cell # 0
       THEN cells' = [cells EXCEPT ![cell].reference_array = Append(@, Len(references) + 1)]
       ELSE UNCHANGED cells
    /\ rec' = GdsRec("SREF", NULLSTR)
    /\ UNCHANGED <<status, library, cell, polygons, flexpaths, labels,
                   gds_polygon, gds_path, gds_label>>
    /\ GdsFrame

\* case TEXT
ReadGdsText ==
    /\ GdsReading
    /\ file_kind \in {"gds_elements", "gds_state"}
    /\ Seed <= MaxElems
    /\ labels' = Append(labels, NewLabel)
    /\ gds_label' = Len(labels) + 1
    /\ IF cell # 0
       THEN cells' = [cells EXCEPT ![cell].label_array = Append(@, Len(labels) + 1)]
       ELSE UNCHANGED cells
    /\ rec' = GdsRec("TEXT", NULLSTR)
    /\ UNCHANGED <<status, library, cell, polygons, flexpaths, references,
                   gds_polygon, gds_path, reference>>
    /\ GdsFrame

\* case XY with two points: the open element that takes them, the polygon first
ReadGdsXY ==
    /\ GdsReading
    /\ file_kind \in {"gds_elements", "gds_state"}
    /\ LET pts == <<<<gds.factor * Seed, 0>>, <<gds.factor * Seed, 0>>>>
       IN  /\ gds_polygon # 0 => polygons[gds_polygon].point_array = <<>>
           /\ (gds_polygon = 0 /\ gds_path # 0) => flexpaths[gds_path].spine = <<>>
           /\ (gds_polygon = 0 /\ gds_path = 0 /\ reference # 0) =>
                 references[reference].origin = <<0, 0>>
           /\ (gds_polygon = 0 /\ gds_path = 0 /\ reference = 0 /\ gds_label # 0) =>
                 labels[gds_label].origin = <<0, 0>>
           /\ polygons' = IF gds_polygon # 0
                          THEN [polygons EXCEPT ![gds_polygon].point_array = @ \o pts]
                          ELSE polygons
           /\ flexpaths' = IF gds_polygon = 0 /\ gds_path # 0
                           THEN [flexpaths EXCEPT
                                    ![gds_path].spine = @ \o pts,
                                    ![gds_path].half_width =
                                        IF flexpaths[gds_path].spine = <<>>
                                        THEN gds.width \div 2 ELSE @]
                           ELSE flexpaths
           /\ references' = IF gds_polygon = 0 /\ gds_path = 0 /\ reference # 0
                            THEN [references EXCEPT ![reference].origin = pts[1]]
                            ELSE references
           /\ labels' = IF gds_polygon = 0 /\ gds_path = 0 /\ reference = 0 /\ gds_label # 0
                        THEN [labels EXCEPT ![gds_label].origin = pts[1]]
                        ELSE labels
    /\ gds_polygon # 0 \/ gds_path # 0 \/ reference # 0 \/ gds_label # 0
    /\ rec' = GdsRec("XY", NULLSTR)
    /\ UNCHANGED <<status, library, cells, cell, gds_polygon, gds_path, reference, gds_label>>
    /\ GdsFrame

\* case SNAME
ReadSname ==
    /\ GdsReading
    /\ file_kind = "gds"
    /\ \E name \in {"A", "B"} :
          /\ IF reference # 0
             THEN references' = [references EXCEPT ![reference] =
                                    [@ EXCEPT !.name = name, !.type = "Name", !.cell = 0]]
             ELSE UNCHANGED references
          /\ rec' = GdsRec("SNAME", name)
    /\ UNCHANGED <<status, library, cells, cell, polygons, flexpaths, labels,
                   gds_polygon, gds_path, reference, gds_label>>
    /\ GdsFrame

\* case ENDEL: the closing point of the polygon is dropped (size--), then every
\* element pointer is cleared
ReadEndEl ==
    /\ GdsReading
    /\ polygons' = IF gds_polygon = 0 THEN polygons
                   ELSE IF polygons[gds_polygon].point_array = <<>>
                   THEN [polygons EXCEPT ![gds_polygon].size_wrapped = TRUE]
                   ELSE [polygons EXCEPT ![gds_polygon].point_array =
                                             SubSeq(@, 1, Len(@) - 1)]
    /\ gds_polygon' = 0
    /\ gds_path' = 0
    /\ reference' = 0
    /\ gds_label' = 0
    /\ rec' = GdsRec("ENDEL", NULLSTR)
    /\ UNCHANGED <<status, library, cells, cell, flexpaths, references, labels>>
    /\ GdsFrame

\* case ENDLIB: resolve the references by name, close the file, return library
ReadEndLib ==
    /\ GdsReading
    /\ LET order == RefOrder(Cur)
           map == CellMap(library.cell_array, [i \in DOMAIN cells |-> cells[i].name])
       IN  /\ IF GdsNullName(references, order)
              THEN status' = "crashed" /\ UNCHANGED references
              ELSE status' = "returned"
                   /\ references' = GdsResolve(references, order, 1, map)
           /\ cell' = IF library.cell_array # <<>> THEN Last(library.cell_array) ELSE cell
           /\ reference' = IF order # <<>> THEN Last(order) ELSE reference
    /\ rec' = GdsRec("ENDLIB", NULLSTR)
    /\ UNCHANGED <<library, cells, polygons, flexpaths, labels, gds_polygon, gds_path, gds_label>>
    /\ GdsFrame

\* the library parsed so far
ParsedLibrary(lib) == lib

\* return Library{0} behind the record loop
LibraryAtEof(lib) == EmptyLibrary

\* gdsii_read_record returns 0 before any ENDLIB: return Library{0}
GdsEof ==
    /\ GdsReading
    /\ status' = "returned"
    /\ library' = LibraryAtEof(library)
    /\ rec' = GdsRec("EOF", NULLSTR)
    /\ UNCHANGED <<cells, cell, polygons, flexpaths, references, labels,
                   gds_polygon, gds_path, reference, gds_label>>
    /\ GdsFrame

NextGds ==
    \/ ReadBgnStr
    \/ ReadStrName
    \/ ReadEndStr
    \/ ReadBoundary
    \/ ReadGdsPath
    \/ ReadSref
    \/ ReadGdsText
    \/ ReadGdsXY
    \/ ReadSname
    \/ ReadEndEl
    \/ ReadEndLib
    \/ GdsEof

\* the readers start after the file is open (and, for OASIS, the START record)
InitRead ==
    /\ fixup = FixupInit
    /\ gds = GdsInit
    /\ io = NoCall
    /\ fn \in {"read_gds", "read_oas"}
    /\ file_kind \in IF fn = "read_gds" THEN {"gds", "gds_elements"}
                     ELSE {"placement", "text", "rect", "trap", "poly", "cellname"}
    /\ status = "reading"
    /\ rec = [NoRec EXCEPT !.type = "START"]
    /\ log = {}
    /\ library = EmptyLibrary
    /\ cells = <<>>
    /\ polygons = <<>>
    /\ flexpaths = <<>>
    /\ references = <<>>
    /\ labels = <<>>
    /\ cell = 0
    /\ gds_polygon = 0
    /\ gds_path = 0
    /\ reference = 0
    /\ gds_label = 0
    /\ modal = ModalInit
    /\ cell_name_table = <<>>
    /\ label_text_table = <<>>
    /\ in_data = <<>>
    /\ next_property = PropertiesOf("library", 0)
    /\ lib_in = LibOf(OasInit)
    /\ files = NoFiles
    /\ libs_out = NotRead
    /\ out = NoStream
    /\ wr = NoWriter

NextRead == NextGds \/ NextOas

SpecRead == InitRead /\ [][NextRead]_vars

-----------------------------------------------------------------------------
(* Library::write_oas.  The file is the sequence of records after START. *)

\* (int64_t)llround(v * state.scaling): user units to database units
LLRound(h) ==
    IF h >= 0 THEN (2 * h + SubDbu) \div (2 * SubDbu)
    ELSE -((2 * (-h) + SubDbu) \div (2 * SubDbu))

\* the operator % of C on int64_t: the remainder has the sign of the dividend
CRem(m, d) == IF m >= 0 THEN m % d ELSE -((-m) % d)

\* is_multiple_of_pi_over_2(ref->rotation, m): rotation is m quarter turns
IsMultipleOfPiOver2(rotation) == rotation % 2 = 0
QuarterTurns(rotation) == rotation \div 2

\* variant of Quadrant without the mask and the wrap of negative values
QuadrantUnmasked(m) == m

\* 0x03 & ((m % 4) + 4) for m < 0, 0x03 & (m % 4) otherwise
Quadrant(m) == IF m < 0 THEN (CRem(m, 4) + 4) % 4 ELSE CRem(m, 4) % 4

\* variant of UsePlacement that does not look at the magnification
UsePlacementAnyMag(ref) == IsMultipleOfPiOver2(ref.rotation)

\* ref->magnification == 1.0 && is_multiple_of_pi_over_2(ref->rotation, m)
UsePlacement(ref) == ref.magnification = 1 /\ IsMultipleOfPiOver2(ref.rotation)

\* Repetition::get_size() and oasis_write_repetition(out, repetition, scaling)
RepSize(rep) == IF rep.type = "None" THEN 1 ELSE rep.columns * rep.rows
WriteRepetition(rep) == [rep EXCEPT !.spacing = <<LLRound(@[1]), LLRound(@[2])>>]

\* variant of CellNameMap that numbers the cells from one
CellNameMapFromOne(L) ==
    LET ca == L.library.cell_array
    IN  [k \in {L.cells[ca[i]].name : i \in DOMAIN ca} |->
            CHOOSE i \in DOMAIN ca : L.cells[ca[i]].name = k]

\* cell_name_map after cell_name_map.set(cell->name, i) for i = 0 .. c_size - 1
CellNameMap(L) ==
    LET ca == L.library.cell_array
        keys == {L.cells[ca[i]].name : i \in DOMAIN ca}
    IN  [k \in keys |->
            (CHOOSE i \in DOMAIN ca :
                /\ L.cells[ca[i]].name = k
                /\ \A j \in DOMAIN ca : L.cells[ca[j]].name = k => j <= i) - 1]

\* the PLACEMENT or PLACEMENT_TRANSFORM record of one reference
RefRecord(L, ref) ==
    LET has_repetition == RepSize(ref.repetition) > 1
        info == 240 + (IF has_repetition THEN 8 ELSE 0) + (IF ref.x_reflection THEN 1 ELSE 0)
        index == MapGet(CellNameMap(L),
                        IF ref.type = "Cell" THEN L.cells[ref.cell].name ELSE ref.name)
        common == [NoRec EXCEPT !.num = index,
                                !.x = LLRound(ref.origin[1]), !.y = LLRound(ref.origin[2]),
                                !.rep = IF has_repetition THEN WriteRepetition(ref.repetition)
                                        ELSE NoRepetition]
    IN  IF UsePlacement(ref)
        THEN [common EXCEPT !.type = "PLACEMENT",
                            !.info = info + 2 * Quadrant(QuarterTurns(ref.rotation))]
        ELSE [common EXCEPT !.type = "PLACEMENT_TRANSFORM",
                            !.info = info + (IF ref.magnification # 1 THEN 4 ELSE 0)
                                          + (IF ref.rotation # 0 THEN 2 ELSE 0),
                            !.mag = ref.magnification,
                            !.angle = RotationToAngle(ref.rotation)]

\* the labels of the library in the order they are written
RECURSIVE LabelOrder(_, _)
LabelOrder(L, i) ==
    IF i > Len(L.library.cell_array) THEN <<>>
    ELSE L.cells[L.library.cell_array[i]].label_array \o LabelOrder(L, i + 1)

\* text_string_map: the distinct texts in the order of their first label
RECURSIVE TextStrings(_, _, _)
TextStrings(L, order, i) ==
    IF i > Len(order) THEN <<>>
    ELSE LET rest == TextStrings(L, order, i + 1)
             text == L.labels[order[i]].text
         IN  <<text>> \o SelectSeq(rest, LAMBDA x : x # text)

\* text_string_map.get(label->text)
TextIndex(strings, text) == (CHOOSE i \in DOMAIN strings : strings[i] = text) - 1

\* the TEXT record of one label
LabelRecord(L, label) ==
    LET has_repetition == RepSize(label.repetition) > 1
    IN  [NoRec EXCEPT !.type = "TEXT",
                      !.info = 123 + (IF has_repetition THEN 4 ELSE 0),
                      !.num = TextIndex(TextStrings(L, LabelOrder(L, 1), 1), label.text),
                      !.layer = label.layer, !.datatype = label.texttype,
                      !.x = LLRound(label.origin[1]), !.y = LLRound(label.origin[2]),
                      !.rep = IF has_repetition THEN WriteRepetition(label.repetition)
                              ELSE NoRepetition]

\* Polygon::to_oas: a POLYGON record with the rounded vertices relative to the first
PolygonRecord(polygon) ==
    LET has_repetition == RepSize(polygon.repetition) > 1
        pts == polygon.point_array
        Q(v) == <<LLRound(v[1]), LLRound(v[2])>>
    IN  [NoRec EXCEPT !.type = "POLYGON",
                      !.info = 59 + (IF has_repetition THEN 4 ELSE 0),
                      !.layer = polygon.layer, !.datatype = polygon.datatype,
                      !.pts = [i \in 1..(Len(pts) - 1) |->
                                  <<Q(pts[i + 1])[1] - Q(pts[1])[1],
                                    Q(pts[i + 1])[2] - Q(pts[1])[2]>>],
                      !.x = Q(pts[1])[1], !.y = Q(pts[1])[2],
                      !.rep = IF has_repetition THEN WriteRepetition(polygon.repetition)
                              ELSE NoRepetition]

\* the records of one cell's contents: polygons, references, labels
CellBody(L, c) ==
    [i \in DOMAIN c.polygon_array |-> PolygonRecord(L.polygons[c.polygon_array[i]])]
    \o [i \in DOMAIN c.reference_array |-> RefRecord(L, L.references[c.reference_array[i]])]
    \o [i \in DOMAIN c.label_array |-> LabelRecord(L, L.labels[c.label_array[i]])]

\* one iteration of the cell loop: CELL_REF_NUM, then the contents, in a CBLOCK
\* when use_cblock
RECURSIVE WriteCells(_, _, _)
WriteCells(L, use_cblock, i) ==
    IF i > Len(L.library.cell_array) THEN <<>>
    ELSE LET c == L.cells[L.library.cell_array[i]]
             body == CellBody(L, c)
         IN  <<[NoRec EXCEPT !.type = "CELL_REF_NUM",
                             !.num = MapGet(CellNameMap(L), c.name)]>>
             \o (IF use_cblock THEN <<CblockOf(body)>> ELSE body)
             \o WriteCells(L, use_cblock, i + 1)

\* the name tables and END; the text strings come in the order the map yields them
WriteTables(L, perm) ==
    LET ca == L.library.cell_array
        strings == TextStrings(L, LabelOrder(L, 1), 1)
    IN  [i \in DOMAIN ca |->
            [NoRec EXCEPT !.type = "CELLNAME_IMPLICIT", !.name = L.cells[ca[i]].name]]
        \o [i \in DOMAIN strings |->
               [NoRec EXCEPT !.type = "TEXTSTRING", !.name = strings[perm[i]],
                             !.num = perm[i] - 1]]
        \o <<[NoRec EXCEPT !.type = "END"]>>

WriteOasFile(L, use_cblock, perm) == WriteCells(L, use_cblock, 1) \o WriteTables(L, perm)

\* the orders in which the text string map may yield n entries
MapOrders(n) == {p \in [1..n -> 1..n] : \A i, j \in 1..n : p[i] = p[j] => i = j}

\* read_oas on a whole file: the loop, then the return
RECURSIVE ReadLoop(_, _)
ReadLoop(s, file) ==
    IF s.status = "crashed" THEN s
    ELSE IF FromBuffer(s)
    THEN ReadLoop(OasRecord(Consume(s), Head(s.in_data), "crash"), file)
    ELSE IF file = <<>> \/ s.status = "at_end" THEN OasFinish(s)
    ELSE ReadLoop(OasRecord(s, Head(file), "crash"), Tail(file))

ReadOasFile(file) == ReadLoop(OasInit, file)

\* Libraries handed to write_oas: one or two cells named "A", "B", holding up to
\* MaxElems polygons, references and labels drawn from the choices below.
\* Coordinates are in sub-steps of the database unit, so some are rounded.
UserRep == [type |-> "Rectangular", columns |-> 2, rows |-> 3, spacing |-> <<3, 5>>]

RefTo(type, target, mag, rot, flip, rep, origin) ==
    [NewReference EXCEPT !.type = type,
                         !.cell = IF type = "Cell" THEN target ELSE 0,
                         !.name = IF type = "Name" THEN target ELSE NULLSTR,
                         !.magnification = mag, !.rotation = rot, !.x_reflection = flip,
                         !.repetition = rep, !.origin = origin]

RefChoices ==
    {RefTo("Cell", 1, 1, 0, FALSE, NoRepetition, <<1, -3>>),
     RefTo("Name", "B", 1, 2, TRUE, UserRep, <<4, 2>>),
     RefTo("Name", "C", 1, -2, FALSE, NoRepetition, <<0, 0>>),
     RefTo("Cell", 1, 1, -6, TRUE, NoRepetition, <<-1, 3>>),
     RefTo("Name", "B", 1, -8, FALSE, UserRep, <<2, 2>>),
     RefTo("Cell", 1, 1, 10, FALSE, NoRepetition, <<5, 0>>),
     RefTo("Cell", 1, 1, 3, FALSE, NoRepetition, <<1, 1>>),
     RefTo("Name", "B", 2, 0, TRUE, NoRepetition, <<-4, 6>>),
     RefTo("Cell", 1, 2, 4, FALSE, UserRep, <<3, -5>>)}

LabelChoices ==
    {[NewLabel EXCEPT !.text = "S1", !.layer = 1, !.texttype = 2, !.origin = <<1, -3>>,
                      !.anchor = "SW", !.magnification = 1],
     [NewLabel EXCEPT !.text = "S2", !.layer = 3, !.texttype = 0, !.origin = <<4, 2>>,
                      !.anchor = "NE", !.rotation = 2, !.magnification = 2,
                      !.x_reflection = TRUE, !.repetition = UserRep],
     [NewLabel EXCEPT !.text = "S1", !.layer = 2, !.texttype = 2, !.origin = <<-2, 0>>,
                      !.anchor = "SW", !.magnification = 1]}

PolygonChoices ==
    {[NewPolygon EXCEPT !.layer = 1, !.datatype = 2,
                        !.point_array = <<<<1, 1>>, <<5, 1>>, <<3, -4>>>>],
     [NewPolygon EXCEPT !.layer = 0, !.datatype = 1, !.repetition = UserRep,
                        !.point_array = <<<<0, 0>>, <<4, 0>>, <<4, 4>>, <<0, 4>>>>]}

ElementChoices ==
    {[kind |-> "reference", v |-> x] : x \in RefChoices}
    \cup {[kind |-> "label", v |-> x] : x \in LabelChoices}
    \cup {[kind |-> "polygon", v |-> x] : x \in PolygonChoices}

\* the library with n cells whose j-th element is elems[j][1], in cell elems[j][2]
BuildLibrary(n, elems) ==
    LET Positions(kind) ==
            SelectSeq([j \in DOMAIN elems |-> j], LAMBDA j : elems[j][1].kind = kind)
        Heap(kind) == [q \in DOMAIN Positions(kind) |-> elems[Positions(kind)[q]][1].v]
        Held(kind, c) ==
            SelectSeq([q \in DOMAIN Positions(kind) |-> q],
                      LAMBDA q : elems[Positions(kind)[q]][2] = c)
    IN  [library |-> [name |-> "L", cell_array |-> [c \in 1..n |-> c], properties |-> <<>>],
         cells |-> [c \in 1..n |->
                       [NewCell EXCEPT !.name = CellNames[c],
                                       !.polygon_array = Held("polygon", c),
                                       !.reference_array = Held("reference", c),
                                       !.label_array = Held("label", c)]],
         polygons |-> Heap("polygon"),
         flexpaths |-> <<>>,
         references |-> Heap("reference"),
         labels |-> Heap("label")]

Libraries(n, k) == {BuildLibrary(n, elems) : elems \in [1..k -> ElementChoices \X (1..n)]}

-----------------------------------------------------------------------------
(* Properties of the readers *)

Range(seq) == {seq[i] : i \in DOMAIN seq}

CellTypes == {"CELL", "CELL_REF_NUM"}
TrapezoidTypes == {"TRAPEZOID_AB", "TRAPEZOID_A", "TRAPEZOID_B"}
GeometryTypes == {"RECTANGLE", "POLYGON", "PATH", "CTRAPEZOID", "CIRCLE"} \cup TrapezoidTypes
PlacementTypes == {"PLACEMENT", "PLACEMENT_TRANSFORM"}
ElementTypes == GeometryTypes \cup PlacementTypes \cup {"TEXT"}

\* the step handles END (read_oas) or ENDLIB (read_gds) and completes
EndStep == rec'.type \in {"END", "ENDLIB"} /\ status' \in {"at_end", "returned"}

\* the references held by the cells of the library after the step
LibraryRefs == UNION {Range(cells'[c].reference_array) : c \in Range(library'.cell_array)}

\* the library after the step has a cell of this name
HasCellNamed(name) == \E d \in Range(library'.cell_array) : cells'[d].name = name

\* C1: after ENDLIB (read_gds) and after END (read_oas), every reference of a
\* cell that was in the Name state, and whose name is the name of a cell of the
\* library, has type Cell and points to a library cell carrying that name.
C1_NameResolution ==
    [][EndStep =>
         \A i \in LibraryRefs :
            (references[i].type = "Name" /\ HasCellNamed(references[i].name))
            => /\ references'[i].type = "Cell"
               /\ references'[i].cell \in Range(library'.cell_array)
               /\ cells'[references'[i].cell].name = references[i].name]_vars

\* C1 witness: read_gds has returned from ENDLIB with a reference, named by an
\* SNAME record, that points to the cell "B"
C1_Witness ==
    /\ fn = "read_gds" /\ rec.type = "ENDLIB" /\ status = "returned"
    /\ \E c \in Range(library.cell_array) : \E i \in Range(cells[c].reference_array) :
          /\ references[i].type = "Cell"
          /\ references[i].cell # 0
          /\ cells[references[i].cell].name = "B"

\* C2: when the fix-up at END / ENDLIB finds no cell for a reference's name or
\* reference number, the reference keeps its identifier (it does not become a
\* Cell reference with a NULL cell) and a message is logged.
C2_UnresolvedKeptAndLogged ==
    [][EndStep =>
         \A i \in LibraryRefs :
            /\ (references[i].type = "Name" /\ ~HasCellNamed(references[i].name))
               => /\ references'[i].type = "Name"
                  /\ references'[i].name = references[i].name
                  /\ log' # log
            /\ (fn = "read_oas" /\ references[i].type = "Cell"
                /\ (~ValidEntry(cell_name_table, references[i].cell)
                    \/ ~HasCellNamed(Lookup(cell_name_table, references[i].cell, NULLSTR))))
               => /\ ~(references'[i].type = "Cell" /\ references'[i].cell = 0)
                  /\ log' # log]_vars

\* C3: right after a CELL or CELL_REF_NUM record of read_oas the modal
\* placement, text and geometry positions are (0,0) and absolute_pos is true.
C3_CellResetsPositions ==
    (fn = "read_oas" /\ rec.type \in CellTypes)
    => /\ modal.placement_pos = <<0, 0>>
       /\ modal.text_pos = <<0, 0>>
       /\ modal.geom_pos = <<0, 0>>
       /\ modal.absolute_pos = TRUE

\* C3 witness: a second cell was opened after two placements, the second of
\* which was placed in relative mode (its x is the sum of both x operands)
C3_Witness ==
    /\ fn = "read_oas" /\ rec.type \in CellTypes /\ Len(cells) = 2
    /\ Len(references) = 2
    /\ references[2].origin[1] = Factor * 3

\* C4 (amended): a CELL or CELL_REF_NUM record of read_oas resets the three modal
\* positions and absolute_pos and leaves every other modal variable as it was.
C4_CellKeepsOtherModals ==
    [][(fn = "read_oas" /\ rec'.type \in CellTypes)
       => modal' = [modal EXCEPT !.absolute_pos = TRUE, !.placement_pos = <<0, 0>>,
                                 !.text_pos = <<0, 0>>, !.geom_pos = <<0, 0>>]]_vars

\* C4 witness: a cell was opened while layer, datatype, dimensions and
\* repetition set by a rectangle of the previous cell are still in force
C4_Witness ==
    /\ fn = "read_oas" /\ rec.type \in CellTypes /\ Len(cells) = 2
    /\ modal.layer # 0 /\ modal.datatype # 0 /\ modal.geom_dim # <<0, 0>>
    /\ modal.repetition # NoRepetition

\* C4 as stated: right after a CELL or CELL_REF_NUM record every modal variable
\* has its default value.
C4_AllModalsReset == (fn = "read_oas" /\ rec.type \in CellTypes) => modal = ModalInit

\* width and height of the polygon built by a RECTANGLE, TRAPEZOID or CTRAPEZOID
\* record, read off its vertices (pos is the geometry position it was placed at);
\* empty where the shape does not show the dimension
BuiltWidth(type, info, ctype, pts, pos) ==
    CASE type = "RECTANGLE" -> {pts[3][1] - pts[1][1]}
      [] type \in TrapezoidTypes /\ Bit(info, 128) -> {pts[2][1] - pts[1][1]}
      [] type \in TrapezoidTypes /\ ~Bit(info, 128) -> {pts[4][1] - pos[1]}
      [] type = "CTRAPEZOID" /\ ctype \in 16..19 -> {pts[2][1] - pos[1]}
      [] OTHER -> {}

BuiltHeight(type, info, pts, pos) ==
    CASE type = "RECTANGLE" -> {pts[3][2] - pts[1][2]}
      [] type \in TrapezoidTypes /\ Bit(info, 128) -> {pts[4][2] - pts[1][2]}
      [] type \in TrapezoidTypes /\ ~Bit(info, 128) -> {pts[1][2] - pos[2]}
      [] OTHER -> {}

\* an element record with a clear update bit is built from the modal value and
\* leaves it alone; other records leave the modal values alone.  With
\* squareUsesWidth, a square RECTANGLE (bit 0x80) takes its height from the width.
ModalReuseStep(squareUsesWidth) ==
    (fn = "read_oas" /\ status' # "crashed") =>
    LET r == rec'
        info == r.info
        m == modal
        n == modal'
        poly == Last(polygons')
        path == Last(flexpaths')
        label == Last(labels')
        w == BuiltWidth(r.type, info, n.ctrapezoid_type, poly.point_array, n.geom_pos)
        h == BuiltHeight(r.type, info, poly.point_array, n.geom_pos)
    IN  /\ r.type \in GeometryTypes \ {"PATH"} =>
              /\ ~Bit(info, 1) => n.layer = m.layer /\ poly.layer = m.layer
              /\ ~Bit(info, 2) => n.datatype = m.datatype /\ poly.datatype = m.datatype
        /\ r.type = "PATH" =>
              /\ ~Bit(info, 1) => n.layer = m.layer /\ path.layer = m.layer
              /\ ~Bit(info, 2) => n.datatype = m.datatype /\ path.datatype = m.datatype
              /\ ~Bit(info, 64) => /\ n.path_halfwidth = m.path_halfwidth
                                   /\ path.half_width = m.path_halfwidth
              /\ ~Bit(info, 32) =>
                    /\ n.path_points = m.path_points
                    /\ path.spine = <<n.geom_pos>> \o
                          [i \in DOMAIN m.path_points |-> VAdd(m.path_points[i], n.geom_pos)]
        /\ r.type = "TEXT" =>
              /\ ~Bit(info, 1) => n.textlayer = m.textlayer /\ label.layer = m.textlayer
              /\ ~Bit(info, 2) => n.texttype = m.texttype /\ label.texttype = m.texttype
        /\ r.type \in {"RECTANGLE", "CTRAPEZOID"} \cup TrapezoidTypes =>
              /\ ~Bit(info, 64) => /\ n.geom_dim[1] = m.geom_dim[1]
                                   /\ w \subseteq {m.geom_dim[1]}
              /\ ~Bit(info, 32) =>
                    /\ n.geom_dim[2] = m.geom_dim[2]
                    /\ IF squareUsesWidth /\ r.type = "RECTANGLE" /\ Bit(info, 128)
                       THEN h = {n.geom_dim[1]}
                       ELSE h \subseteq {m.geom_dim[2]}
        /\ (r.type = "POLYGON" /\ ~Bit(info, 32)) =>
                    /\ n.polygon_points = m.polygon_points
                    /\ poly.point_array = <<n.geom_pos>> \o
                          [i \in DOMAIN m.polygon_points |->
                              VAdd(m.polygon_points[i], n.geom_pos)]
        /\ (r.type = "CIRCLE" /\ ~Bit(info, 32)) =>
                                /\ n.circle_radius = m.circle_radius
                                /\ poly.point_array[1][1] - n.geom_pos[1] = m.circle_radius
        /\ r.type \notin ElementTypes =>
              /\ n.layer = m.layer /\ n.datatype = m.datatype
              /\ n.textlayer = m.textlayer /\ n.texttype = m.texttype
              /\ n.geom_dim = m.geom_dim /\ n.path_halfwidth = m.path_halfwidth
              /\ n.circle_radius = m.circle_radius
              /\ n.polygon_points = m.polygon_points /\ n.path_points = m.path_points

PlacedAt(type, info) ==
    LET n == modal'
        pts == Last(polygons').point_array
    IN  CASE type \in PlacementTypes -> Last(references').origin
          [] type = "TEXT" -> Last(labels').origin
          [] type = "PATH" -> Last(flexpaths').spine[1]
          [] type = "CIRCLE" -> VAdd(pts[1], <<-n.circle_radius, 0>>)
          [] type \in TrapezoidTypes /\ ~Bit(info, 128) -> VAdd(pts[1], <<0, -n.geom_dim[2]>>)
          [] type = "CTRAPEZOID" /\ n.ctrapezoid_type = 19 -> VAdd(pts[1], <<-n.geom_dim[1], 0>>)
          [] OTHER -> pts[1]

\* C6: an element record of read_oas replaces (absolute_pos) or advances
\* (otherwise) the component of its modal position whose bit is set, per axis,
\* leaves a component whose bit is clear, places the element at the updated
\* position, and changes neither the positions of the other two kinds nor
\* absolute_pos.
C6_PositionUpdate ==
    [][(fn = "read_oas" /\ status' # "crashed" /\ rec'.type \in ElementTypes) =>
       LET r == rec'
           kind == IF r.type \in PlacementTypes THEN "placement_pos"
                   ELSE IF r.type = "TEXT" THEN "text_pos" ELSE "geom_pos"
           xbit == IF r.type \in PlacementTypes THEN 32 ELSE 16
           ybit == IF r.type \in PlacementTypes THEN 16 ELSE 8
           Moved(old, present, v) ==
               IF ~present THEN old
               ELSE IF modal.absolute_pos THEN Factor * v ELSE old + Factor * v
           new == <<Moved(modal[kind][1], Bit(r.info, xbit), r.x),
                    Moved(modal[kind][2], Bit(r.info, ybit), r.y)>>
       IN  /\ modal'[kind] = new
           /\ PlacedAt(r.type, r.info) = new
           /\ \A other \in {"placement_pos", "text_pos", "geom_pos"} \ {kind} :
                 modal'[other] = modal[other]
           /\ modal'.absolute_pos = modal.absolute_pos]_vars

\* C6 witness: in relative mode a PLACEMENT that carries x only was placed at
\* the previous x plus its operand and at the previous y
C6_Witness ==
    /\ fn = "read_oas" /\ rec.type = "PLACEMENT" /\ rec.info = 35
    /\ modal.absolute_pos = FALSE
    /\ Len(references) = 2
    /\ references[1].origin[2] # 0
    /\ references[2].origin = <<references[1].origin[1] + Factor * rec.x,
                                references[1].origin[2]>>

-----------------------------------------------------------------------------
(* Writing a library with and without CBLOCK and reading the files back *)

WriteFrame ==
    UNCHANGED <<fn, status, log, library, cells, polygons, flexpaths, references,
                labels, cell, gds_polygon, gds_path, reference, gds_label, modal, cell_name_table,
                label_text_table,
                in_data, next_property, file_kind, gds, lib_in, out, wr, io, fixup>>

\* one call of lib_in.write_oas(filename, ..., config_flags)
WriteOas ==
    /\ fn = "write_oas"
    /\ \E use_cblock \in BOOLEAN :
          /\ files[use_cblock] = <<>>
          /\ \E perm \in MapOrders(Len(TextStrings(lib_in, LabelOrder(lib_in, 1), 1))) :
                files' = [files EXCEPT ![use_cblock] =
                             WriteOasFile(lib_in, use_cblock, perm)]
          /\ rec' = [NoRec EXCEPT !.type = "END", !.info = IF use_cblock THEN 1 ELSE 0]
    /\ UNCHANGED libs_out
    /\ WriteFrame

\* one call of read_oas on a file written before
ReadBack ==
    /\ fn = "write_oas"
    /\ \E b \in BOOLEAN :
          /\ files[b] # <<>>
          /\ libs_out[b].status = "none"
          /\ libs_out' = [libs_out EXCEPT ![b] = ReadOasFile(files[b])]
          /\ rec' = [NoRec EXCEPT !.type = "EOF", !.info = IF b THEN 1 ELSE 0]
    /\ UNCHANGED files
    /\ WriteFrame

InitWrite ==
    /\ fixup = FixupInit
    /\ gds = GdsInit
    /\ io = NoCall
    /\ fn = "write_oas"
    /\ file_kind = "written"
    /\ status = "idle"
    /\ rec = [NoRec EXCEPT !.type = "START"]
    /\ log = {}
    /\ library = EmptyLibrary
    /\ cells = <<>>
    /\ polygons = <<>>
    /\ flexpaths = <<>>
    /\ references = <<>>
    /\ labels = <<>>
    /\ cell = 0
    /\ gds_polygon = 0
    /\ gds_path = 0
    /\ reference = 0
    /\ gds_label = 0
    /\ modal = ModalInit
    /\ cell_name_table = <<>>
    /\ label_text_table = <<>>
    /\ in_data = <<>>
    /\ next_property = PropertiesOf("library", 0)
    /\ \E n \in 1..Len(CellNames), k \in 0..MaxElems : lib_in \in Libraries(n, k)
    /\ files = NoFiles
    /\ libs_out = NotRead
    /\ out = NoStream
    /\ wr = NoWriter

NextWrite == WriteOas \/ ReadBack

SpecWrite == InitWrite /\ [][NextWrite]_vars

-----------------------------------------------------------------------------
(* Properties of write_oas and of reading its files back *)

\* the records of a file with the contents of its CBLOCKs in their place
RECURSIVE Flatten(_)
Flatten(file) ==
    IF file = <<>> THEN <<>>
    ELSE (IF Head(file).type = "CBLOCK" THEN Reverse(Head(file).payload.z)
          ELSE <<Head(file)>>) \o Flatten(Tail(file))

\* the PLACEMENT and PLACEMENT_TRANSFORM records of the file written with flag b;
\* the j-th belongs to the j-th reference of the library in cell order
PlacementsWritten(b) == SelectSeq(Flatten(files[b]), LAMBDA r : r.type \in PlacementTypes)
RefsWritten == [j \in DOMAIN RefOrder(lib_in) |-> lib_in.references[RefOrder(lib_in)[j]]]

\* the references of the library read back from the file written with flag b
RefsReadBack(b) ==
    [j \in DOMAIN RefOrder(libs_out[b]) |->
        libs_out[b].references[RefOrder(libs_out[b])[j]]]

BothReadBack == libs_out[TRUE].status = "returned" /\ libs_out[FALSE].status = "returned"

\* C7: reading the file written with CBLOCK yields the same library (cells and
\* their order, polygons, paths, references, labels) as reading the file written
\* without CBLOCK.
C7_CblockTransparent ==
    BothReadBack => LibOf(libs_out[TRUE]) = LibOf(libs_out[FALSE])

\* C7 witness: both files of a library with a polygon and a reference were read
\* back, and the one written with CBLOCK holds them inside a CBLOCK record
C7_Witness ==
    /\ BothReadBack
    /\ \E i \in DOMAIN files[TRUE] :
          files[TRUE][i].type = "CBLOCK" /\ files[TRUE][i].usize >= 2
    /\ libs_out[TRUE].polygons # <<>>
    /\ libs_out[TRUE].references # <<>>

\* a user-unit length in database units, as the writer rounds it
Quantized(v) == <<LLRound(v[1]), LLRound(v[2])>>
QuantizedRep(rep) == [rep EXCEPT !.spacing = Quantized(@)]

\* what the round trip is to preserve: cell names in order and, per cell, the
\* references and labels with their attributes, origins in database units,
\* rotations up to full turns
TargetName(L, ref) ==
    IF ref.type = "Name" THEN ref.name
    ELSE IF ref.cell \in DOMAIN L.cells THEN L.cells[ref.cell].name
    ELSE NULLSTR

RefView(L, ref) ==
    [target |-> TargetName(L, ref), origin |-> Quantized(ref.origin),
     magnification |-> ref.magnification, rotation |-> ref.rotation % 8,
     x_reflection |-> ref.x_reflection, repetition |-> QuantizedRep(ref.repetition)]

LabelView(label) ==
    [text |-> label.text, layer |-> label.layer, texttype |-> label.texttype,
     origin |-> Quantized(label.origin), anchor |-> label.anchor,
     rotation |-> label.rotation % 8, magnification |-> label.magnification,
     x_reflection |-> label.x_reflection]

LibraryView(L) ==
    [i \in DOMAIN L.library.cell_array |->
        LET c == L.cells[L.library.cell_array[i]]
        IN  [name |-> c.name,
             references |-> [j \in DOMAIN c.reference_array |->
                                RefView(L, L.references[c.reference_array[j]])],
             labels |-> [j \in DOMAIN c.label_array |->
                            LabelView(L.labels[c.label_array[j]])]]]

\* C8: read_oas(write_oas(L)) has the cell names of L in the same order and, per
\* cell, the same references (target, origin in database units, magnification,
\* rotation, x-reflection, repetition) and the same labels (text, layer,
\* texttype, origin, anchor, rotation, magnification, x-reflection).
C8_RoundTrip ==
    \A b \in BOOLEAN :
        libs_out[b].status = "returned" => LibraryView(LibOf(libs_out[b])) = LibraryView(lib_in)

\* C9: a reference is written as a PLACEMENT record exactly when its
\* magnification is 1 and its rotation is a multiple of pi/2, and as a
\* PLACEMENT_TRANSFORM record otherwise.
C9_RecordChoice ==
    \A b \in BOOLEAN :
        files[b] # <<>> =>
            /\ Len(PlacementsWritten(b)) = Len(RefsWritten)
            /\ \A j \in DOMAIN RefsWritten :
                  PlacementsWritten(b)[j].type =
                      IF RefsWritten[j].magnification = 1 /\ RefsWritten[j].rotation % 2 = 0
                      THEN "PLACEMENT" ELSE "PLACEMENT_TRANSFORM"

\* C9 witness: a file holds a PLACEMENT record and a PLACEMENT_TRANSFORM record,
\* the latter for a reference with magnification 1 and rotation 3 pi/4
C9_Witness ==
    \E b \in BOOLEAN :
        /\ files[b] # <<>>
        /\ \E j, k \in DOMAIN RefsWritten :
              /\ PlacementsWritten(b)[j].type = "PLACEMENT"
              /\ PlacementsWritten(b)[k].type = "PLACEMENT_TRANSFORM"
              /\ RefsWritten[k].magnification = 1

\* C10: for a reference with magnification 1 and rotation m * pi/2, m of either
\* sign, the PLACEMENT info byte is 0xF0, plus 0x08 with a repetition, plus 0x01
\* with x-reflection, plus (m mod 4) in bits 1-2, mod being the non-negative
\* remainder; read_oas gives the reference rotation (m mod 4) * pi/2 and
\* magnification 1.
C10_RotationQuadrant ==
    \A b \in BOOLEAN :
        files[b] # <<>> =>
            \A j \in DOMAIN RefsWritten :
                LET ref == RefsWritten[j]
                    m == ref.rotation \div 2
                IN  (ref.magnification = 1 /\ ref.rotation % 2 = 0) =>
                       /\ PlacementsWritten(b)[j].info =
                             240 + (IF ref.repetition # NoRepetition THEN 8 ELSE 0)
                                 + (IF ref.x_reflection THEN 1 ELSE 0)
                                 + 2 * (m % 4)
                       /\ libs_out[b].status = "returned" =>
                             /\ RefsReadBack(b)[j].rotation = 2 * (m % 4)
                             /\ RefsReadBack(b)[j].magnification = 1

\* C10 witness: a reference rotated by -3 pi/2 was written with quadrant 1 and
\* read back with rotation pi/2
C10_Witness ==
    \E b \in BOOLEAN :
        /\ libs_out[b].status = "returned"
        /\ \E j \in DOMAIN RefsWritten :
              /\ RefsWritten[j].rotation = -6
              /\ RefsWritten[j].magnification = 1
              /\ PlacementsWritten(b)[j].info = 243
              /\ RefsReadBack(b)[j].rotation = 2

-----------------------------------------------------------------------------
(* Properties of the END fix-up of read_oas: names and texts given by number *)

\* the END record of read_oas is handled by this step and the fix-up completes
OasEndStep == fn = "read_oas" /\ rec'.type = "END" /\ status' = "at_end"

\* cell i waits for the name of a number the cell-name table binds
NamedByNumber(i) == cells[i].name = NULLSTR /\ ValidEntry(cell_name_table, cells[i].owner)

\* label i waits for the text of a number the text-string table binds
TextByNumber(i) == labels[i].text = NULLSTR /\ ValidEntry(label_text_table, labels[i].owner)

C12_LabelTextPrepended ==
    [][OasEndStep =>
          \A i \in DOMAIN labels :
              TextByNumber(i) =>
                  LET entry == label_text_table[labels[i].owner + 1]
                  IN  /\ labels'[i].text = entry.bytes
                      /\ labels'[i].properties = entry.properties \o labels[i].properties
                      /\ label_text_table'[labels[i].owner + 1] = entry]_vars

\* C12 witness: a label got its text from table entry 1 and holds the entry's
\* two properties followed by its own
C12_Witness ==
    /\ fn = "read_oas" /\ rec.type = "END" /\ status = "at_end"
    /\ \E i \in DOMAIN labels :
          /\ labels[i].text = "S8"
          /\ Len(labels[i].properties) = 3
          /\ labels[i].properties[1].name = "T1"
          /\ labels[i].properties[2].name = "T2"
          /\ labels[i].properties[3].name = "O1"

\* C12 as stated: at END the properties of the table entry come after the
\* properties the label already had.
C12_LabelTextAppended ==
    [][OasEndStep =>
          \A i \in DOMAIN labels :
              TextByNumber(i) =>
                  LET entry == label_text_table[labels[i].owner + 1]
                  IN  /\ labels'[i].text = entry.bytes
                      /\ labels'[i].properties = labels[i].properties \o entry.properties]_vars

-----------------------------------------------------------------------------
(* Properties of the element slots of read_gds *)

\* the element pointers of read_gds that are not NULL
OpenSlots ==
    {k \in {"polygon", "path", "reference", "label"} :
        \/ k = "polygon" /\ gds_polygon # 0
        \/ k = "path" /\ gds_path # 0
        \/ k = "reference" /\ reference # 0
        \/ k = "label" /\ gds_label # 0}

\* C20 as stated: in read_gds, after every record, at most one of the four
\* element slots (polygon, path, reference, label) is open.
C20_AtMostOneOpen ==
    (fn = "read_gds" /\ status = "reading") => Cardinality(OpenSlots) <= 1


-----------------------------------------------------------------------------
(* Library::write_oas step by step: the stream, the cell loop, the name     *)
(* tables and the END record.  out.file holds one item per record and, from *)
(* the END record on, one item per byte; a file position counts items.      *)

\* base-128 digits of n, least significant first
RECURSIVE Septets(_)
Septets(n) == IF n < 128 THEN <<n>> ELSE <<n % 128>> \o Septets(n \div 128)

\* the number a digit sequence stands for
RECURSIVE SeptetValue(_)
SeptetValue(digits) ==
    IF digits = <<>> THEN 0 ELSE Head(digits) + 128 * SeptetValue(Tail(digits))

\* oasis_write_unsigned_integer: one byte per digit, the continuation bit set
\* on every byte but the last
UnsignedIntegerBytes(digits) ==
    [k \in DOMAIN digits |-> IF k < Len(digits) THEN 128 + digits[k] ELSE digits[k]]

\* fputc / fwrite on out.file
FilePut(o, items) == [o EXCEPT !.file = @ \o items]

\* oasis_putc / oasis_write_*: at the cursor when there is one, else to the file
OasisPut(o, items) ==
    IF o.cursor = 0 THEN FilePut(o, items)
    ELSE [o EXCEPT !.data = SubSeq(@, 1, o.cursor - 1) \o items
                            \o SubSeq(@, o.cursor + Len(items), Len(@)),
                   !.cursor = @ + Len(items)]

\* ftell(out.file)
Ftell(o) == Len(o.file)

\* variant of PadLen that forgets the END byte already written
PadLenFromEnd(after_end, after_offsets) == 253 + after_end - after_offsets

\* pad_len = 252 + ftell(out.file); ...; pad_len -= ftell(out.file)
PadLen(after_end, after_offsets) == 252 + after_end - after_offsets

\* the END record: the record byte, a flag and a varint offset for each of the
\* four tables, the two absent tables, the pad length, the padding, the
\* validation byte
WriteEndRecord(o, offsets) ==
    LET o0 == FilePut(o, <<[NoRec EXCEPT !.type = "END"]>>)
        RECURSIVE TableOffsets(_, _)
        TableOffsets(s, k) ==
            IF k > Len(offsets) THEN s
            ELSE TableOffsets(OasisPut(FilePut(s, <<1>>), UnsignedIntegerBytes(offsets[k])),
                              k + 1)
        o1 == FilePut(TableOffsets(o0, 1), <<1, 0, 1, 0>>)
        pad_len == PadLen(Ftell(o0), Ftell(o1))
        o2 == OasisPut(o1, UnsignedIntegerBytes(Septets(pad_len)))
    IN  FilePut(o2, [k \in 1..pad_len |-> 0] \o <<0>>)

\* the four table offsets in the order the END record stores them
TableOffsetsOf(w) ==
    <<w.cell_name_offset, w.text_string_offset, w.prop_name_offset, w.prop_string_offset>>

WriterFrame ==
    UNCHANGED <<fn, status, rec, library, cells, polygons, flexpaths, references,
                labels, cell, gds_polygon, gds_path, reference, gds_label, modal,
                cell_name_table, label_text_table, in_data, next_property, file_kind, gds, fixup,
                lib_in, files, libs_out, io>>

-----------------------------------------------------------------------------
(* The cell loop and the name tables of write_oas *)

\* the START record: magic bytes, version, unit, offset flag
StartRecord == [NoRec EXCEPT !.type = "START", !.info = 1]

\* the contents of the i-th cell in the order the loop writes them: polygons,
\* references, labels
BodyOf(L, i) ==
    LET c == L.cells[L.library.cell_array[i]]
    IN  [k \in DOMAIN c.polygon_array |-> [kind |-> "polygon", idx |-> c.polygon_array[k]]]
        \o [k \in DOMAIN c.reference_array |->
               [kind |-> "reference", idx |-> c.reference_array[k]]]
        \o [k \in DOMAIN c.label_array |-> [kind |-> "label", idx |-> c.label_array[k]]]

\* the end of one iteration of the cell loop: the next cell, or the tables
NextCell(w) ==
    IF w.i < Len(lib_in.library.cell_array)
    THEN [w EXCEPT !.pc = "cell", !.i = @ + 1, !.j = 0]
    ELSE [w EXCEPT !.pc = "cell_names"]

\* where the cell loop stands once j contents of cell i are written
Settle(w) ==
    IF w.j < Len(BodyOf(lib_in, w.i)) THEN [w EXCEPT !.pc = "body"]
    ELSE IF w.use_cblock THEN [w EXCEPT !.pc = "cblock"]
    ELSE NextCell(w)

\* the element the cell loop writes next
NextElement == BodyOf(lib_in, wr.i)[wr.j + 1]
AtElement(kind) ==
    /\ wr.pc = "body"
    /\ wr.j < Len(BodyOf(lib_in, wr.i))
    /\ NextElement.kind = kind

\* Map<uint64_t> kept in insertion order: has_key, get, and set with value size
HasKey(map, key) == \E k \in DOMAIN map : map[k] = key
IndexOf(map, key) == (CHOOSE k \in DOMAIN map : map[k] = key) - 1

\* variant of TextStringIndex that numbers every label anew
TextStringIndexNew(map, text) == Len(map)

\* index = has_key(text) ? get(text) : size
TextStringIndex(map, text) == IF HasKey(map, text) THEN IndexOf(map, text) ELSE Len(map)

\* the map after the label is written
TextStringSet(map, text) == IF HasKey(map, text) THEN map ELSE Append(map, text)

\* properties_to_oas: one PROPERTY record per property, at the cursor; the name
\* goes to property_name_map on first sight, every string value to
\* property_value_array
RECURSIVE PropertiesToOas(_, _)
PropertiesToOas(s, properties) ==
    IF properties = <<>> THEN s
    ELSE LET p == Head(properties)
             names == TextStringSet(s.wr.property_name_map, p.name)
             strings == SelectSeq(p.value, LAMBDA v : v.type = "String")
             record == [NoRec EXCEPT !.type = "PROPERTY", !.info = 6,
                                     !.num = IndexOf(names, p.name),
                                     !.values = p.value]
         IN  PropertiesToOas(
                 [out |-> OasisPut(s.out, <<record>>),
                  wr |-> [s.wr EXCEPT !.property_name_map = names,
                                      !.property_value_array = @ \o strings]],
                 Tail(properties))

\* fputc(type, out.file) followed by oasis_write_* of the operands: the record
\* is whole in the file when the cursor is NULL; with a cursor the operands
\* land in the buffer
DirectPut(o, record) ==
    IF o.cursor = 0 THEN FilePut(o, <<record>>)
    ELSE OasisPut(FilePut(o, <<[NoRec EXCEPT !.type = record.type]>>),
                  <<[record EXCEPT !.type = "OPERANDS"]>>)

\* fopen, the header, the library's properties, cell_name_map
WriteStart ==
    /\ wr.pc = "start"
    /\ LET s == PropertiesToOas([out |-> FilePut(out, <<StartRecord>>), wr |-> wr],
                                lib_in.library.properties)
       IN  /\ out' = s.out
           /\ wr' = IF lib_in.library.cell_array # <<>>
                    THEN [s.wr EXCEPT !.pc = "cell", !.i = 1, !.j = 0]
                    ELSE [s.wr EXCEPT !.pc = "cell_names"]
    /\ UNCHANGED log
    /\ WriterFrame

\* variant of StageCursor that never stages
StageNever(o, use_cblock) == o

\* if (use_cblock) out.cursor = out.data
StageCursor(o, use_cblock) == IF use_cblock THEN [o EXCEPT !.cursor = 1] ELSE o

\* CELL_REF_NUM with cell_name_map.get(cell->name), then the cursor redirect
WriteCellRefNum ==
    /\ wr.pc = "cell"
    /\ LET c == lib_in.cells[lib_in.library.cell_array[wr.i]]
           record == [NoRec EXCEPT !.type = "CELL_REF_NUM",
                                   !.num = MapGet(CellNameMap(lib_in), c.name)]
       IN  out' = StageCursor(DirectPut(out, record), wr.use_cblock)
    /\ wr' = Settle(wr)
    /\ UNCHANGED log
    /\ WriterFrame

\* Polygon::to_oas
WritePolygon ==
    /\ AtElement("polygon")
    /\ LET polygon == lib_in.polygons[NextElement.idx]
           s == PropertiesToOas([out |-> OasisPut(out, <<PolygonRecord(polygon)>>),
                                 wr |-> wr], polygon.properties)
       IN  /\ out' = s.out
           /\ wr' = Settle([s.wr EXCEPT !.j = @ + 1])
    /\ UNCHANGED log
    /\ WriterFrame

\* variant of RawCellWarning that stays silent
RawCellSilent(lg) == lg

\* fputs("[GDSTK] Reference to a RawCell cannot be used in a OASIS file.")
RawCellWarning(lg) == lg \cup {"Reference to a RawCell cannot be used in a OASIS file"}

\* one iteration of the reference loop: a RawCell reference is skipped with a
\* warning, any other becomes a PLACEMENT or PLACEMENT_TRANSFORM record
WriteReference ==
    /\ AtElement("reference")
    /\ LET ref == lib_in.references[NextElement.idx]
       IN  IF ref.type = "RawCell"
           THEN /\ log' = RawCellWarning(log)
                /\ out' = out
                /\ wr' = Settle([wr EXCEPT !.j = @ + 1])
           ELSE LET s == PropertiesToOas(
                             [out |-> OasisPut(out, <<RefRecord(lib_in, ref)>>), wr |-> wr],
                             ref.properties)
                IN  /\ out' = s.out
                    /\ wr' = Settle([s.wr EXCEPT !.j = @ + 1])
                    /\ UNCHANGED log
    /\ WriterFrame

\* one iteration of the label loop: TEXT with the text's number
WriteLabel ==
    /\ AtElement("label")
    /\ LET label == lib_in.labels[NextElement.idx]
           index == TextStringIndex(wr.text_string_map, label.text)
           record == [LabelRecord(lib_in, label) EXCEPT !.num = index]
           s == PropertiesToOas(
                    [out |-> OasisPut(out, <<record>>),
                     wr |-> [wr EXCEPT !.text_string_map = TextStringSet(@, label.text)]],
                    label.properties)
       IN  /\ out' = s.out
           /\ wr' = Settle([s.wr EXCEPT !.j = @ + 1])
    /\ UNCHANGED log
    /\ WriterFrame

\* variant of StagedBytes that takes the whole buffer
StagedBuffer(o) == o.data

\* out.data .. out.cursor: uncompressed_size = out.cursor - out.data items
StagedBytes(o) == SubSeq(o.data, 1, o.cursor - 1)

\* the end of a cell with use_cblock: cursor back to NULL, then the CBLOCK record
\* (type 0, uncompressed size, compressed size, payload) on the file
WriteCblock ==
    /\ wr.pc = "cblock"
    /\ out' = FilePut([out EXCEPT !.cursor = 0], <<CblockOf(StagedBytes(out))>>)
    /\ wr' = NextCell(wr)
    /\ UNCHANGED log
    /\ WriterFrame

\* variant of TableOffset that stores the position of an empty table too
TableOffsetAlways(entries, o) == Septets(Ftell(o))

\* size > 0 ? ftell(out.file) : 0
TableOffset(entries, o) == IF entries > 0 THEN Septets(Ftell(o)) ELSE <<0>>

\* the CELLNAME_IMPLICIT records from cell k on, each followed by the
\* properties of the cell cell_property_map holds for the name
RECURSIVE CellNameRecordsFrom(_, _)
CellNameRecordsFrom(s, k) ==
    IF k > Len(lib_in.library.cell_array) THEN s
    ELSE LET name == lib_in.cells[lib_in.library.cell_array[k]].name
             holder == CHOOSE q \in DOMAIN lib_in.library.cell_array :
                          /\ lib_in.cells[lib_in.library.cell_array[q]].name = name
                          /\ \A r \in DOMAIN lib_in.library.cell_array :
                                lib_in.cells[lib_in.library.cell_array[r]].name = name
                                    => r <= q
             record == [NoRec EXCEPT !.type = "CELLNAME_IMPLICIT", !.name = name]
         IN  CellNameRecordsFrom(
                 PropertiesToOas([out |-> DirectPut(s.out, record), wr |-> s.wr],
                                 lib_in.cells[lib_in.library.cell_array[holder]].properties),
                 k + 1)

\* cell_name_offset, then the cell name table
WriteCellNameTable ==
    /\ wr.pc = "cell_names"
    /\ LET offset == TableOffset(Len(lib_in.library.cell_array), out)
           s == CellNameRecordsFrom([out |-> out, wr |-> wr], 1)
       IN  /\ out' = s.out
           /\ wr' = [s.wr EXCEPT !.pc = "text_strings", !.cell_name_offset = offset]
    /\ UNCHANGED log
    /\ WriterFrame

\* a table of a Map<uint64_t>: one record per item, key and value, in the order
\* the map yields its items
MapTable(type, map, perm) ==
    [k \in DOMAIN map |-> [NoRec EXCEPT !.type = type, !.name = map[perm[k]],
                                        !.num = perm[k] - 1]]

RECURSIVE DirectPutAll(_, _)
DirectPutAll(o, records) ==
    IF records = <<>> THEN o
    ELSE DirectPutAll(DirectPut(o, Head(records)), Tail(records))

\* text_string_offset, then the TEXTSTRING table
WriteTextStringTable ==
    /\ wr.pc = "text_strings"
    /\ \E perm \in MapOrders(Len(wr.text_string_map)) :
          out' = DirectPutAll(out, MapTable("TEXTSTRING", wr.text_string_map, perm))
    /\ wr' = [wr EXCEPT !.pc = "prop_names",
                        !.text_string_offset = TableOffset(Len(wr.text_string_map), out)]
    /\ UNCHANGED log
    /\ WriterFrame

\* prop_name_offset, then the PROPNAME table
WritePropNameTable ==
    /\ wr.pc = "prop_names"
    /\ \E perm \in MapOrders(Len(wr.property_name_map)) :
          out' = DirectPutAll(out, MapTable("PROPNAME", wr.property_name_map, perm))
    /\ wr' = [wr EXCEPT !.pc = "prop_strings",
                        !.prop_name_offset = TableOffset(Len(wr.property_name_map), out)]
    /\ UNCHANGED log
    /\ WriterFrame

\* prop_string_offset, then the PROPSTRING_IMPLICIT table
WritePropStringTable ==
    /\ wr.pc = "prop_strings"
    /\ out' = DirectPutAll(out,
                 [k \in DOMAIN wr.property_value_array |->
                     [NoRec EXCEPT !.type = "PROPSTRING_IMPLICIT",
                                   !.name = wr.property_value_array[k].bytes]])
    /\ wr' = [wr EXCEPT !.pc = "end",
                        !.prop_string_offset =
                            TableOffset(Len(wr.property_value_array), out)]
    /\ UNCHANGED log
    /\ WriterFrame

\* fputc(END) ... fputc(0): the END record, then free and fclose
WriteEnd ==
    /\ wr.pc = "end"
    /\ out' = WriteEndRecord(out, TableOffsetsOf(wr))
    /\ wr' = [wr EXCEPT !.pc = "done"]
    /\ UNCHANGED log
    /\ WriterFrame

\* Table offsets handed to the END record: one value for each varint length
OffsetLengths == 1..10
OffsetOfLength(n) == [k \in 1..n |-> IF k = n THEN 1 ELSE (3 * n + k) % 128]

InitEnd ==
    /\ fixup = FixupInit
    /\ gds = GdsInit
    /\ io = NoCall
    /\ fn = "write_oas"
    /\ file_kind = "end"
    /\ status = "idle"
    /\ rec = [NoRec EXCEPT !.type = "START"]
    /\ log = {}
    /\ library = EmptyLibrary
    /\ cells = <<>>
    /\ polygons = <<>>
    /\ flexpaths = <<>>
    /\ references = <<>>
    /\ labels = <<>>
    /\ cell = 0
    /\ gds_polygon = 0
    /\ gds_path = 0
    /\ reference = 0
    /\ gds_label = 0
    /\ modal = ModalInit
    /\ cell_name_table = <<>>
    /\ label_text_table = <<>>
    /\ in_data = <<>>
    /\ next_property = PropertiesOf("library", 0)
    /\ lib_in = BuildLibrary(0, <<>>)
    /\ files = NoFiles
    /\ libs_out = NotRead
    /\ out = [NoStream EXCEPT !.file = <<StartRecord>>]
    /\ \E a, b, c, d \in OffsetLengths :
          wr = [NoWriter EXCEPT !.pc = "end",
                                !.cell_name_offset = OffsetOfLength(a),
                                !.text_string_offset = OffsetOfLength(b),
                                !.prop_name_offset = OffsetOfLength(c),
                                !.prop_string_offset = OffsetOfLength(d)]

NextEnd == WriteEnd

SpecEnd == InitEnd /\ [][NextEnd]_vars

-----------------------------------------------------------------------------
(* Libraries handed to the step-wise write_oas: none, one or two cells with *)
(* up to MaxElems elements, among them a RawCell reference and labels that  *)
(* share a text, with and without properties.                               *)

WriterChoices ==
    {[kind |-> "reference", v |-> x] :
        x \in {RefTo("Cell", 1, 1, 2, FALSE, NoRepetition, <<1, -3>>),
               RefTo("Name", "B", 2, 0, TRUE, NoRepetition, <<-4, 6>>),
               RefTo("RawCell", 0, 1, 0, FALSE, NoRepetition, <<2, 1>>)}}
    \cup {[kind |-> "label", v |-> x] : x \in LabelChoices}
    \cup {[kind |-> "polygon", v |-> x] :
             x \in {[NewPolygon EXCEPT !.layer = 1, !.datatype = 2,
                                       !.point_array = <<<<1, 1>>, <<5, 1>>, <<3, -4>>>>]}}

StringValue(bytes) == [type |-> "String", bytes |-> bytes]
UnsignedValue(n) == [type |-> "UnsignedInteger", unsigned_integer |-> n]

\* L with a property on the library, on its first cell and on its first label
WithProperties(L) ==
    [L EXCEPT !.library.properties = <<[name |-> "P1", value |-> <<StringValue("V1")>>]>>,
              !.cells = [c \in DOMAIN @ |->
                            IF c = 1
                            THEN [@[c] EXCEPT !.properties =
                                     <<[name |-> "P2", value |-> <<UnsignedValue(7)>>]>>]
                            ELSE @[c]],
              !.labels = [k \in DOMAIN @ |->
                             IF k = 1
                             THEN [@[k] EXCEPT !.properties =
                                      <<[name |-> "P1",
                                         value |-> <<UnsignedValue(3), StringValue("V2")>>]>>]
                             ELSE @[k]]]

InitWriter ==
    /\ fixup = FixupInit
    /\ gds = GdsInit
    /\ io = NoCall
    /\ fn = "write_oas"
    /\ file_kind = "steps"
    /\ status = "idle"
    /\ rec = [NoRec EXCEPT !.type = "START"]
    /\ log = {}
    /\ library = EmptyLibrary
    /\ cells = <<>>
    /\ polygons = <<>>
    /\ flexpaths = <<>>
    /\ references = <<>>
    /\ labels = <<>>
    /\ cell = 0
    /\ gds_polygon = 0
    /\ gds_path = 0
    /\ reference = 0
    /\ gds_label = 0
    /\ modal = ModalInit
    /\ cell_name_table = <<>>
    /\ label_text_table = <<>>
    /\ in_data = <<>>
    /\ next_property = PropertiesOf("library", 0)
    /\ \E n \in 0..Len(CellNames), k \in 0..MaxElems, with_properties \in BOOLEAN :
          \E elems \in [1..k -> WriterChoices \X (1..n)] :
             lib_in = IF with_properties THEN WithProperties(BuildLibrary(n, elems))
                      ELSE BuildLibrary(n, elems)
    /\ files = NoFiles
    /\ libs_out = NotRead
    /\ out = NoStream
    /\ \E use_cblock \in BOOLEAN :
          wr = [NoWriter EXCEPT !.pc = "start", !.use_cblock = use_cblock]

NextWriter ==
    \/ WriteStart
    \/ WriteCellRefNum
    \/ WritePolygon
    \/ WriteReference
    \/ WriteLabel
    \/ WriteCblock
    \/ WriteCellNameTable
    \/ WriteTextStringTable
    \/ WritePropNameTable
    \/ WritePropStringTable
    \/ WriteEnd

SpecWriter == InitWriter /\ [][NextWriter]_vars

-----------------------------------------------------------------------------
(* Properties of the END record *)

\* bytes the four offset varints take in the END record
OffsetBytes(w) ==
    Len(w.cell_name_offset) + Len(w.text_string_offset)
    + Len(w.prop_name_offset) + Len(w.prop_string_offset)

\* C13: whatever the four table offsets (varints of 1 to 10 bytes each), the
\* file ends 256 bytes after the offset of the END record byte; the pad
\* length is one varint counting the padding bytes, every padding byte is
\* zero and the last byte, the validation scheme, is zero.
C13_EndRecordSize ==
    [][(wr.pc = "end" /\ wr'.pc = "done") =>
          LET end_offset == Len(out.file)
              f == out'.file
              pad_at == end_offset + 1 + 4 + OffsetBytes(wr) + 4
              pad_len == SeptetValue(<<f[pad_at + 1] - 128, f[pad_at + 2]>>)
          IN  /\ Len(f) = end_offset + 256
              /\ SubSeq(f, 1, end_offset) = out.file
              /\ f[end_offset + 1].type = "END"
              /\ f[pad_at + 1] >= 128 /\ f[pad_at + 2] < 128
              /\ pad_at + 2 + pad_len + 1 = Len(f)
              /\ \A k \in (pad_at + 3)..Len(f) : f[k] = 0]_vars

\* an END record written with a ten-byte and a one-byte offset
C13_Witness ==
    /\ wr.pc = "done"
    /\ Len(wr.cell_name_offset) = 10
    /\ Len(wr.text_string_offset) = 1
    /\ Len(out.file) = 1 + 256
    /\ out.file[Len(out.file) - 1] = 0


-----------------------------------------------------------------------------
(* Properties of the step-wise write_oas *)

\* index of the END record in the finished file
EndIndex == Len(out.file) - 255

\* the four name tables in the order of their offsets in the END record
TableTypes == <<"CELLNAME_IMPLICIT", "TEXTSTRING", "PROPNAME", "PROPSTRING_IMPLICIT">>

\* place of a record type in the layout: cell bodies, the four tables, END;
\* -1 for START and for PROPERTY, which follows the record it belongs to
LayoutRank(type) ==
    IF type \in {"START", "PROPERTY"} THEN -1
    ELSE IF type = "END" THEN 5
    ELSE IF \E t \in 1..4 : TableTypes[t] = type
    THEN CHOOSE t \in 1..4 : TableTypes[t] = type
    ELSE 0

\* C14: in the finished file the cell-name, text-string, property-name and
\* property-string tables come in that order after the last cell body and
\* before END, and the END record stores for each table the file position of
\* its first record when it has one and 0 when it has none.
C14_TableOrderAndOffsets ==
    (file_kind = "steps" /\ wr.pc = "done") =>
        LET f == out.file
            e == EndIndex
            Has(type) == \E k \in 1..e : f[k].type = type
            First(type) == CHOOSE k \in 1..e :
                              f[k].type = type /\ \A j \in 1..(k - 1) : f[j].type # type
        IN  /\ f[e].type = "END"
            /\ \A k \in 1..(e - 1) : f[k].type # "END"
            /\ \A j, k \in 1..e :
                  (j < k /\ LayoutRank(f[j].type) >= 0 /\ LayoutRank(f[k].type) >= 0)
                      => LayoutRank(f[j].type) <= LayoutRank(f[k].type)
            /\ \A t \in 1..4 :
                  /\ f[e + 2 * t - 1] = 1
                  /\ f[e + 2 * t] = IF Has(TableTypes[t]) THEN First(TableTypes[t]) - 1
                                    ELSE 0

\* a finished file with cells but no labels: three tables with entries after
\* a cell body, the text-string table empty
C14_Witness ==
    /\ file_kind = "steps" /\ wr.pc = "done"
    /\ \E k \in 1..EndIndex : out.file[k].type \in {"POLYGON", "CBLOCK"}
    /\ \A t \in {1, 3, 4} : \E k \in 1..EndIndex : out.file[k].type = TableTypes[t]
    /\ \A k \in 1..EndIndex : out.file[k].type # "TEXTSTRING"
    /\ out.file[EndIndex + 2] > 0
    /\ out.file[EndIndex + 4] = 0
    /\ out.file[EndIndex + 8] > out.file[EndIndex + 6]


\* what identifies a record of a cell body: its type and its position
Signature(r) == <<r.type, r.x, r.y>>

\* the signatures the contents of cell i must produce: every polygon, every
\* reference that is no RawCell reference, every label, in order
ExpectedBody(i) ==
    LET body == SelectSeq(BodyOf(lib_in, i),
                          LAMBDA e : e.kind = "reference"
                                         => lib_in.references[e.idx].type # "RawCell")
        Sig(e) ==
            IF e.kind = "polygon"
            THEN <<"POLYGON", LLRound(lib_in.polygons[e.idx].point_array[1][1]),
                   LLRound(lib_in.polygons[e.idx].point_array[1][2])>>
            ELSE IF e.kind = "reference"
            THEN <<IF UsePlacement(lib_in.references[e.idx]) THEN "PLACEMENT"
                   ELSE "PLACEMENT_TRANSFORM",
                   LLRound(lib_in.references[e.idx].origin[1]),
                   LLRound(lib_in.references[e.idx].origin[2])>>
            ELSE <<"TEXT", LLRound(lib_in.labels[e.idx].origin[1]),
                   LLRound(lib_in.labels[e.idx].origin[2])>>
    IN  [k \in DOMAIN body |-> Sig(body[k])]

\* the signatures of the records of a sequence that are no PROPERTY records
Signatures(records) ==
    LET own == SelectSeq(records, LAMBDA r : r.type # "PROPERTY")
    IN  [k \in DOMAIN own |-> Signature(own[k])]

\* one step of write_oas keeps the staging protocol
StagingStep ==
    /\ wr.pc = "cell" =>
          /\ out.cursor = 0
          /\ Len(out'.file) = Len(out.file) + 1
          /\ Last(out'.file).type = "CELL_REF_NUM"
          /\ out'.data = out.data
          /\ out'.cursor = IF wr.use_cblock THEN 1 ELSE 0
    /\ (wr.pc = "body" /\ wr.use_cblock) =>
          /\ out'.file = out.file
          /\ out.cursor >= 1
          /\ out'.cursor >= out.cursor
          /\ Len(out'.data) >= out'.cursor - 1
          /\ SubSeq(out'.data, 1, out.cursor - 1) = SubSeq(out.data, 1, out.cursor - 1)
    /\ wr.pc = "cblock" =>
          /\ out'.cursor = 0
          /\ Len(out'.file) = Len(out.file) + 1
          /\ LET r == Last(out'.file)
             IN  /\ r.type = "CBLOCK"
                 /\ r.num = 0
                 /\ r.usize = out.cursor - 1
                 /\ Len(Inflate(r.payload)) = r.usize
                 /\ Signatures(Inflate(r.payload)) = ExpectedBody(wr.i)
    /\ wr.pc \in {"cell_names", "text_strings", "prop_names", "prop_strings", "end"} =>
          /\ out.cursor = 0
          /\ out'.cursor = 0
          /\ out'.data = out.data
    /\ (wr'.pc = "done" /\ wr.use_cblock) =>
          LET f == SubSeq(out'.file, 1, Len(out'.file) - 255)
          IN  /\ Len(SelectSeq(f, LAMBDA r : r.type = "CBLOCK"))
                    = Len(lib_in.library.cell_array)
              /\ \A k \in DOMAIN f :
                    /\ f[k].type = "CELL_REF_NUM" => f[k + 1].type = "CBLOCK"
                    /\ f[k].type = "CBLOCK" => f[k - 1].type = "CELL_REF_NUM"
                    /\ f[k].type \notin ElementTypes

\* C15: with CBLOCK enabled, for every cell the CELL_REF_NUM record goes to the
\* file with the cursor NULL, then the cursor is at the start of the buffer and
\* the cell's contents are staged there while the file stays as it is, then the
\* cursor is NULL again and one CBLOCK record of type 0 follows whose
\* uncompressed size is the number of staged items and whose payload holds the
\* contents of that cell and of no other; tables and END are written with the
\* cursor NULL.
C15_CblockStaging == [][StagingStep]_vars

\* a finished file of two cells with CBLOCK: the first cell staged something,
\* the second nothing, so its CBLOCK is empty while the buffer still holds the
\* items of the first
C15_Witness ==
    /\ file_kind = "steps" /\ wr.pc = "done" /\ wr.use_cblock
    /\ out.data # <<>>
    /\ out.cursor = 0
    /\ \E j, k \in 1..EndIndex :
          /\ j < k
          /\ out.file[j].type = "CBLOCK" /\ out.file[j].usize > 0
          /\ out.file[k].type = "CBLOCK" /\ out.file[k].usize = 0


\* the records of the finished file up to END, CBLOCK contents in their place
Written == Flatten(SubSeq(out.file, 1, EndIndex))

\* the records of the given types in the finished file, in file order
WrittenOf(types) == SelectSeq(Written, LAMBDA r : r.type \in types)

\* the references write_oas turns into records, in the order it meets them
RefsPlaced == SelectSeq(RefsWritten, LAMBDA ref : ref.type # "RawCell")

\* the name of the cell a reference points to
TargetOf(ref) == IF ref.type = "Cell" THEN lib_in.cells[ref.cell].name ELSE ref.name

NamesUnique ==
    \A i, j \in DOMAIN lib_in.library.cell_array :
        lib_in.cells[lib_in.library.cell_array[i]].name
            = lib_in.cells[lib_in.library.cell_array[j]].name => i = j

\* C16: for a library with unique cell names, the i-th cell (counting from 0)
\* is written with CELL_REF_NUM i, the i-th CELLNAME_IMPLICIT record carries
\* its name, and every placement of a cell of the library carries the number
\* of that cell.
C16_CellNumbering ==
    (file_kind = "steps" /\ wr.pc = "done" /\ NamesUnique) =>
        LET ca == lib_in.library.cell_array
            nums == WrittenOf({"CELL_REF_NUM"})
            names == WrittenOf({"CELLNAME_IMPLICIT"})
            placed == WrittenOf(PlacementTypes)
        IN  /\ Len(nums) = Len(ca)
            /\ Len(names) = Len(ca)
            /\ \A i \in DOMAIN ca :
                  /\ nums[i].num = i - 1
                  /\ names[i].name = lib_in.cells[ca[i]].name
            /\ Len(placed) = Len(RefsPlaced)
            /\ \A j \in DOMAIN placed :
                  \A i \in DOMAIN ca :
                      lib_in.cells[ca[i]].name = TargetOf(RefsPlaced[j])
                          => placed[j].num = i - 1

\* a finished file of two cells in which the first cell places the second by
\* name and the second places the first
C16_Witness ==
    /\ file_kind = "steps" /\ wr.pc = "done" /\ NamesUnique
    /\ Len(WrittenOf({"CELL_REF_NUM"})) = 2
    /\ WrittenOf({"CELL_REF_NUM"})[2].num = 1
    /\ \E j, k \in DOMAIN WrittenOf(PlacementTypes) :
          /\ WrittenOf(PlacementTypes)[j].num = 1 /\ TargetOf(RefsPlaced[j]) = "B"
          /\ WrittenOf(PlacementTypes)[k].num = 0 /\ TargetOf(RefsPlaced[k]) = "A"


\* the labels of the library in the order write_oas meets them
LabelsWritten == [q \in DOMAIN LabelOrder(lib_in, 1) |-> lib_in.labels[LabelOrder(lib_in, 1)[q]]]

\* the number the q-th label must carry: how many different texts come before
\* the first label with its text
FirstAppearance(q) ==
    LET first == CHOOSE p \in DOMAIN LabelsWritten :
                    /\ LabelsWritten[p].text = LabelsWritten[q].text
                    /\ \A r \in 1..(p - 1) : LabelsWritten[r].text # LabelsWritten[q].text
    IN  Cardinality({LabelsWritten[r].text : r \in 1..(first - 1)})

\* C17: over all cells, a label whose text was not seen before gets the next
\* unused number, counting from 0 in order of first appearance, a label whose
\* text was seen gets the number of that text, different texts get different
\* numbers, and the text-string table has exactly one TEXTSTRING record for
\* each number used, binding it to that text.
C17_TextStringNumbering ==
    (file_kind = "steps" /\ wr.pc = "done") =>
        LET texts == WrittenOf({"TEXT"})
            table == WrittenOf({"TEXTSTRING"})
        IN  /\ Len(texts) = Len(LabelsWritten)
            /\ \A q \in DOMAIN texts : texts[q].num = FirstAppearance(q)
            /\ \A p, q \in DOMAIN texts :
                  texts[p].num = texts[q].num <=> LabelsWritten[p].text = LabelsWritten[q].text
            /\ \A q \in DOMAIN texts :
                  \E k \in DOMAIN table :
                      /\ table[k].num = texts[q].num
                      /\ table[k].name = LabelsWritten[q].text
                      /\ \A j \in DOMAIN table : table[j].num = table[k].num => j = k
            /\ \A k \in DOMAIN table : \E q \in DOMAIN texts : texts[q].num = table[k].num

\* a finished file of two cells whose labels share the text "S1"
C17_Witness ==
    /\ file_kind = "steps" /\ wr.pc = "done"
    /\ Len(lib_in.library.cell_array) = 2
    /\ lib_in.cells[1].label_array # <<>> /\ lib_in.cells[2].label_array # <<>>
    /\ Len(WrittenOf({"TEXT"})) = 2
    /\ WrittenOf({"TEXT"})[1].num = 0 /\ WrittenOf({"TEXT"})[2].num = 0
    /\ Len(WrittenOf({"TEXTSTRING"})) = 1


\* the signatures every cell of the library must produce, cell after cell
RECURSIVE ExpectedFrom(_)
ExpectedFrom(i) ==
    IF i > Len(lib_in.library.cell_array) THEN <<>>
    ELSE ExpectedBody(i) \o ExpectedFrom(i + 1)

RawCellRefs == {k \in DOMAIN lib_in.references : lib_in.references[k].type = "RawCell"}

\* C18: a reference of type RawCell produces the warning and no PLACEMENT or
\* PLACEMENT_TRANSFORM record, while every other reference, every label and
\* every polygon of the cell is written, in order.
C18_RawCellSkipped ==
    (file_kind = "steps" /\ wr.pc = "done") =>
        /\ (RawCellRefs # {})
              <=> ("Reference to a RawCell cannot be used in a OASIS file" \in log)
        /\ Len(WrittenOf(PlacementTypes)) = Len(lib_in.references) - Cardinality(RawCellRefs)
        /\ Signatures(WrittenOf(ElementTypes)) = ExpectedFrom(1)

\* a finished file of a cell that holds a RawCell reference and then a
\* reference by name: the warning is logged and one placement is written
C18_Witness ==
    /\ file_kind = "steps" /\ wr.pc = "done"
    /\ Len(lib_in.cells) >= 1
    /\ Len(lib_in.cells[1].reference_array) = 2
    /\ lib_in.references[lib_in.cells[1].reference_array[1]].type = "RawCell"
    /\ lib_in.references[lib_in.cells[1].reference_array[2]].type = "Name"
    /\ log # {}
    /\ Len(WrittenOf(PlacementTypes)) = 1
    /\ WrittenOf(PlacementTypes)[1].type = "PLACEMENT_TRANSFORM"


-----------------------------------------------------------------------------
(* Library::write_gds step by step.  out.file holds one item per GDSII      *)
(* record and one per cell stream; a library name is given by its strlen.   *)

\* (uint16_t) n
UInt16(n) == n % 65536

\* std::tm values: year since 1900, month from 0, day, hour, minute, second
Timestamps == {<<99, 11, 31, 23, 59, 59>>, <<126, 10, 3, 8, 0, 0>>}
\* localtime(time(NULL))
LocalTimes == {<<126, 10, 3, 9, 30, 0>>}

\* the six uint16_t fields of one timestamp in BGNLIB
TimestampFields(tm) == <<UInt16(tm[1] + 1900), UInt16(tm[2] + 1), UInt16(tm[3]),
                         UInt16(tm[4]), UInt16(tm[5]), UInt16(tm[6])>>

\* len = strlen(name); if (len % 2) len++
PaddedLength(strlen) == IF strlen % 2 = 1 THEN strlen + 1 ELSE strlen

\* buffer_start and the name: HEADER, BGNLIB, LIBNAME; then UNITS.  length is
\* the 16-bit length field of the record, bytes the bytes written after the
\* record header
GdsStartRecords(strlen, tm) ==
    <<[type |-> "HEADER", length |-> 6, bytes |-> 2, data |-> <<600>>],
      [type |-> "BGNLIB", length |-> 28, bytes |-> 24,
       data |-> <<TimestampFields(tm), TimestampFields(tm)>>],
      [type |-> "LIBNAME", length |-> UInt16(4 + PaddedLength(strlen)),
       bytes |-> PaddedLength(strlen), data |-> <<strlen>>],
      [type |-> "UNITS", length |-> 20, bytes |-> 16, data |-> <<>>]>>

\* Cell::to_gds, RawCell::to_gds: the stream of one cell
CellStream(type, name) == [type |-> type, length |-> 0, bytes |-> 0, data |-> <<name>>]

\* Libraries handed to write_gds: name lengths on both sides of the 16-bit
\* limit of the record length, up to MaxElems cells and raw cells
NameLengths == {0, 1, 4, 7, 65530, 65531, 65532, 65533}
RawCellNames == <<"R1", "R2", "R3">>

GdsWriterFrame ==
    UNCHANGED <<fn, rec, log, library, cells, polygons, flexpaths, references, labels,
                cell, gds_polygon, gds_path, reference, gds_label, modal,
                cell_name_table, label_text_table, in_data, next_property, file_kind, gds, fixup,
                lib_in, files, libs_out, io>>

\* fopen, the header records and the library name
WriteGdsStart ==
    /\ wr.pc = "start"
    /\ \E now \in LocalTimes :
          LET tm == IF wr.timestamp = <<>> THEN now ELSE wr.timestamp
          IN  /\ out' = FilePut(out, GdsStartRecords(lib_in.library.name.strlen, tm))
              /\ wr' = [wr EXCEPT !.pc = "cells", !.i = 1, !.timestamp = tm]
    /\ UNCHANGED status
    /\ GdsWriterFrame

\* one iteration of the cell loop
WriteGdsCell ==
    /\ wr.pc = "cells"
    /\ wr.i <= Len(lib_in.library.cell_array)
    /\ out' = FilePut(out, <<CellStream("CELL", lib_in.cells[lib_in.library.cell_array[wr.i]].name)>>)
    /\ wr' = [wr EXCEPT !.i = @ + 1]
    /\ UNCHANGED status
    /\ GdsWriterFrame

\* one iteration of the raw cell loop
WriteGdsRawCell ==
    /\ wr.pc = "cells"
    /\ wr.i > Len(lib_in.library.cell_array)
    /\ wr.i <= Len(lib_in.library.cell_array) + Len(lib_in.library.rawcell_array)
    /\ out' = FilePut(out, <<CellStream("RAWCELL",
                 lib_in.library.rawcell_array[wr.i - Len(lib_in.library.cell_array)])>>)
    /\ wr' = [wr EXCEPT !.i = @ + 1]
    /\ UNCHANGED status
    /\ GdsWriterFrame

\* ENDLIB and fclose
WriteGdsEndLib ==
    /\ wr.pc = "cells"
    /\ wr.i > Len(lib_in.library.cell_array) + Len(lib_in.library.rawcell_array)
    /\ out' = FilePut(out, <<[type |-> "ENDLIB", length |-> 4, bytes |-> 0, data |-> <<>>]>>)
    /\ wr' = [wr EXCEPT !.pc = "done"]
    /\ status' = "returned"
    /\ GdsWriterFrame

InitWriteGds ==
    /\ fixup = FixupInit
    /\ gds = GdsInit
    /\ io = NoCall
    /\ fn = "write_gds"
    /\ file_kind = "gds_written"
    /\ status = "idle"
    /\ rec = [NoRec EXCEPT !.type = "START"]
    /\ log = {}
    /\ library = EmptyLibrary
    /\ cells = <<>>
    /\ polygons = <<>>
    /\ flexpaths = <<>>
    /\ references = <<>>
    /\ labels = <<>>
    /\ cell = 0
    /\ gds_polygon = 0
    /\ gds_path = 0
    /\ reference = 0
    /\ gds_label = 0
    /\ modal = ModalInit
    /\ cell_name_table = <<>>
    /\ label_text_table = <<>>
    /\ in_data = <<>>
    /\ next_property = PropertiesOf("library", 0)
    /\ \E n \in 0..Len(CellNames), r \in 0..MaxElems, strlen \in NameLengths :
          lib_in = [BuildLibrary(n, <<>>) EXCEPT
                       !.library = [name |-> [strlen |-> strlen],
                                    cell_array |-> [c \in 1..n |-> c],
                                    rawcell_array |-> SubSeq(RawCellNames, 1, r),
                                    properties |-> <<>>]]
    /\ files = NoFiles
    /\ libs_out = NotRead
    /\ out = NoStream
    /\ \E timestamp \in Timestamps \cup {<<>>} :
          wr = [pc |-> "start", i |-> 0, timestamp |-> timestamp]

NextWriteGds == WriteGdsStart \/ WriteGdsCell \/ WriteGdsRawCell \/ WriteGdsEndLib

SpecWriteGds == InitWriteGds /\ [][NextWriteGds]_vars

-----------------------------------------------------------------------------
(* Properties of write_gds *)

\* C19 as stated: the file is HEADER, BGNLIB with equal timestamps, LIBNAME,
\* UNITS, the stream of each cell in library order, each raw cell in library
\* order, ENDLIB last; the LIBNAME record length is 4 plus the name length
\* rounded up to an even number.
C19_RecordOrder ==
    (fn = "write_gds" /\ wr.pc = "done") =>
        LET f == out.file
            ca == lib_in.library.cell_array
            ra == lib_in.library.rawcell_array
            strlen == lib_in.library.name.strlen
        IN  /\ Len(f) = 4 + Len(ca) + Len(ra) + 1
            /\ f[1].type = "HEADER"
            /\ f[2].type = "BGNLIB" /\ f[2].data[1] = f[2].data[2]
            /\ f[3].type = "LIBNAME"
            /\ f[4].type = "UNITS"
            /\ \A i \in DOMAIN ca :
                  f[4 + i] = CellStream("CELL", lib_in.cells[ca[i]].name)
            /\ \A i \in DOMAIN ra : f[4 + Len(ca) + i] = CellStream("RAWCELL", ra[i])
            /\ f[Len(f)].type = "ENDLIB"
            /\ f[3].length = 4 + strlen + (strlen % 2)


-----------------------------------------------------------------------------
(* Properties of read_gds: elements and order *)

\* C21 as stated: after an ENDEL record no element is open, and a polygon
\* closed by ENDEL stores exactly the points read from its XY records minus
\* the last one.
C21_EndElCloses ==
    [][(fn = "read_gds" /\ rec'.type = "ENDEL") =>
          /\ gds_polygon' = 0 /\ gds_path' = 0 /\ reference' = 0 /\ gds_label' = 0
          /\ gds_polygon # 0 =>
                LET read == polygons[gds_polygon].point_array
                IN  /\ ~polygons'[gds_polygon].size_wrapped
                    /\ polygons'[gds_polygon].point_array
                           = SubSeq(read, 1, Len(read) - 1)]_vars


\* new is old followed by pointers to objects allocated after the first n of
\* their heap
GrowsAtEnd(old, new, n) ==
    /\ Len(new) >= Len(old)
    /\ SubSeq(new, 1, Len(old)) = old
    /\ \A k \in (Len(old) + 1)..Len(new) : new[k] > n

\* one record of a reader only adds at the end of the cell sequence and of the
\* element sequences of the cells, and what it adds is what it just created
OrderStep ==
    (fn \in {"read_gds", "read_oas"} /\ status' # "crashed" /\ rec'.type # "EOF") =>
        /\ Len(library'.cell_array) >= Len(library.cell_array)
        /\ SubSeq(library'.cell_array, 1, Len(library.cell_array)) = library.cell_array
        /\ \A k \in (Len(library.cell_array) + 1)..Len(library'.cell_array) :
              /\ library'.cell_array[k] = cell'
              /\ rec'.type \in {"STRNAME", "CELL", "CELL_REF_NUM"}
        /\ \A c \in DOMAIN cells :
              /\ GrowsAtEnd(cells[c].polygon_array, cells'[c].polygon_array, Len(polygons))
              /\ GrowsAtEnd(cells[c].flexpath_array, cells'[c].flexpath_array,
                            Len(flexpaths))
              /\ GrowsAtEnd(cells[c].reference_array, cells'[c].reference_array,
                            Len(references))
              /\ GrowsAtEnd(cells[c].label_array, cells'[c].label_array, Len(labels))

\* C22: both readers keep file order: a record that names a cell (STRNAME,
\* CELL, CELL_REF_NUM) puts it at the end of the cell sequence, an element
\* record puts the element it creates at the end of its sequence in the open
\* cell, and no record reorders or removes what is there.
C22_FileOrder == [][OrderStep]_vars

\* a library read from an OASIS file with a cell that holds two different
\* polygons in the order of their records
C22_Witness ==
    /\ fn = "read_oas" /\ status \in {"at_end", "returned"}
    /\ \E c \in DOMAIN cells :
          /\ c \in Range(library.cell_array)
          /\ cells[c].polygon_array = <<1, 2>>
          /\ polygons[1] # polygons[2]


-----------------------------------------------------------------------------
(* Entry and exit of the six functions that open a file: read_gds,         *)
(* read_oas, write_gds, write_oas, gds_units and oas_precision.  io holds  *)
(* the FILE*, the fclose calls made, out.data of write_oas, the unit and   *)
(* precision arguments, the Library of a reader in summary and the value   *)
(* returned.  The record loops are reduced to what decides the exit and    *)
(* the returned value.  Lengths count picometres.                          *)

\* Library library = {0}
ZeroLibrary == [name |-> NULLSTR, cells |-> 0, unit |-> 0, precision |-> 0]

\* one micron, the 1e-6 of read_oas and oas_precision
Micron == 1000000

\* what fopen returns
FopenResults == {"open", "NULL"}

\* values of the unit and precision arguments before the call
UnitArgs == {0, Micron}

\* the two reals of a UNITS record: data64[0] as user units per database
\* unit inverted (database units in one user unit), data64[1] in picometres
UnitsData == {[per_user |-> 1000, db_in_meters |-> 1000],
              [per_user |-> 1000, db_in_meters |-> 5000]}

\* the grid steps per micron of the START record
StartReals == {1000, 2000}

\* the first 14 bytes of an OASIS file: the magic, other bytes, or fewer
OasHeaders == {"%SEMI-OASIS", "other", "short"}

\* fclose(f): the call is recorded with the handle it was given
Fclose(c) ==
    [c EXCEPT !.fclose = Append(@, c.handle),
              !.handle = IF @ = "open" THEN "closed" ELSE @]

\* how a call can go on after fclose(c.handle): fclose(NULL) is undefined
AfterFclose(c) == IF c.handle = "NULL" THEN {"returned", "crashed"} ELSE {"returned"}

\* free_allocation(out.data)
FreeData(c) == [c EXCEPT !.data = "freed"]

CallFrame ==
    UNCHANGED <<fn, library, cells, polygons, flexpaths, references, labels,
                cell, gds_polygon, gds_path, reference, gds_label, modal,
                cell_name_table, label_text_table, in_data, next_property, file_kind, gds, fixup,
                lib_in, files, libs_out, out, wr>>

\* read_gds up to its record loop
ReadGdsEnter ==
    /\ fn = "read_gds"
    /\ status = "entry"
    /\ \E in \in FopenResults :
          IF in = "NULL"
          THEN /\ log' = log \cup {"Unable to open GDSII file for input"}
               /\ io' = [io EXCEPT !.handle = in, !.result = io.library]
               /\ status' = "returned"
          ELSE /\ io' = [io EXCEPT !.handle = in]
               /\ status' = "reading"
               /\ UNCHANGED log
    /\ UNCHANGED rec
    /\ CallFrame

\* record types that decide what read_gds returns; STRNAME follows a BGNSTR
GdsCallRecords ==
    {[type |-> "HEADER"], [type |-> "LIBNAME"], [type |-> "STRNAME"],
     [type |-> "ENDLIB"], [type |-> "EOF"]}
        \cup {[type |-> "UNITS", data |-> d] : d \in UnitsData}

\* case UNITS of read_gds
GdsUnits(c, d) ==
    [c EXCEPT !.library.unit = IF c.unit > 0 THEN c.unit ELSE d.db_in_meters * d.per_user,
              !.library.precision = d.db_in_meters]

\* one iteration of the record loop of read_gds, or its end
ReadGdsRecord ==
    /\ fn = "read_gds"
    /\ status = "reading"
    /\ \E r \in GdsCallRecords :
          /\ io.records = MaxElems + 1 => r.type \in {"ENDLIB", "EOF"}
          /\ rec' = [NoRec EXCEPT !.type = r.type]
          /\ CASE r.type = "EOF" ->
                    /\ io' = [Fclose(io) EXCEPT !.result = ZeroLibrary]
                    /\ status' = "returned"
                    /\ UNCHANGED gds
               [] r.type = "ENDLIB" ->
                    /\ io' = [Fclose(io) EXCEPT !.result = io.library, !.records = @ + 1]
                    /\ status' = "returned"
                    /\ UNCHANGED gds
               [] r.type = "LIBNAME" ->
                    /\ io' = [io EXCEPT !.library.name = "A", !.records = @ + 1]
                    /\ UNCHANGED <<status, gds>>
               [] r.type = "STRNAME" ->
                    /\ io' = [io EXCEPT !.library.cells = @ + 1, !.records = @ + 1]
                    /\ UNCHANGED <<status, gds>>
               [] r.type = "UNITS" ->
                    /\ io' = [GdsUnits(io, r.data) EXCEPT !.records = @ + 1]
                    /\ gds' = [gds EXCEPT !.factor = GdsFactor(io, r.data)]
                    /\ UNCHANGED status
               [] OTHER ->
                    /\ io' = [io EXCEPT !.records = @ + 1]
                    /\ UNCHANGED <<status, gds>>
    /\ UNCHANGED <<log, fn, library, cells, polygons, flexpaths, references, labels,
                   cell, gds_polygon, gds_path, reference, gds_label, modal,
                   cell_name_table, label_text_table, in_data, next_property, file_kind,
                   fixup, lib_in, files, libs_out, out, wr>>

\* the START record of read_oas
OasStart(c, real) ==
    [c EXCEPT !.library.precision = Micron \div real,
              !.library.unit = IF c.unit > 0 THEN c.unit ELSE Micron]

\* read_oas up to its record loop
ReadOasEnter ==
    /\ fn = "read_oas"
    /\ status = "entry"
    /\ \E file \in FopenResults, header \in OasHeaders, version \in {"1.0", "2.0"},
          real \in StartReals :
          LET opened == [io EXCEPT !.handle = file]
          IN  IF file = "NULL"
              THEN /\ log' = log \cup {"Unable to open OASIS file for input"}
                   /\ io' = [Fclose(opened) EXCEPT !.result = io.library]
                   /\ status' \in AfterFclose(opened)
              ELSE IF header # "%SEMI-OASIS"
              THEN /\ log' = log \cup {"Invalid OASIS header found"}
                   /\ io' = [Fclose(opened) EXCEPT !.result = io.library]
                   /\ status' \in AfterFclose(opened)
              ELSE /\ log' = IF version # "1.0"
                             THEN log \cup {"Unsupported OASIS file version"} ELSE log
                   /\ io' = OasStart(opened, real)
                   /\ status' = "reading"
    /\ UNCHANGED rec
    /\ CallFrame

\* one iteration of the record loop of read_oas, or what follows the loop
ReadOasRecord ==
    /\ fn = "read_oas"
    /\ status \in {"reading", "at_end"}
    /\ \E type \in {"PAD", "CELL", "END", "EOF"} :
          /\ (io.records = MaxElems + 1 \/ status = "at_end") => type = "EOF"
          /\ rec' = [NoRec EXCEPT !.type = type]
          /\ CASE type = "EOF" ->
                    /\ io' = [Fclose(io) EXCEPT !.result = io.library]
                    /\ status' \in AfterFclose(io)
               [] type = "END" ->
                    /\ io' = [io EXCEPT !.library.name = "LIB", !.records = @ + 1]
                    /\ status' = "at_end"
               [] type = "CELL" ->
                    /\ io' = [io EXCEPT !.library.cells = @ + 1, !.records = @ + 1]
                    /\ UNCHANGED status
               [] OTHER ->
                    /\ io' = [io EXCEPT !.records = @ + 1]
                    /\ UNCHANGED status
    /\ UNCHANGED log
    /\ CallFrame

\* gds_units up to its record loop
GdsUnitsEnter ==
    /\ fn = "gds_units"
    /\ status = "entry"
    /\ \E in \in FopenResults :
          IF in = "NULL"
          THEN /\ log' = log \cup {"Unable to open GDSII file for input"}
               /\ io' = [io EXCEPT !.handle = in, !.result = -1]
               /\ status' = "returned"
          ELSE /\ io' = [io EXCEPT !.handle = in]
               /\ status' = "reading"
               /\ UNCHANGED log
    /\ UNCHANGED rec
    /\ CallFrame

\* one iteration of the record loop of gds_units, or what follows the loop
GdsUnitsRecord ==
    /\ fn = "gds_units"
    /\ status = "reading"
    /\ \E r \in GdsCallRecords :
          /\ io.records = MaxElems + 1 => r.type \in {"UNITS", "EOF"}
          /\ rec' = [NoRec EXCEPT !.type = r.type]
          /\ CASE r.type = "UNITS" ->
                    /\ io' = [Fclose(io) EXCEPT
                                 !.precision = r.data.db_in_meters,
                                 !.unit = r.data.db_in_meters * r.data.per_user,
                                 !.records = @ + 1, !.result = 0]
                    /\ status' = "returned"
                    /\ UNCHANGED log
               [] r.type = "EOF" ->
                    /\ log' = log \cup {"GDSII file missing units definition"}
                    /\ io' = [Fclose(io) EXCEPT !.result = -1]
                    /\ status' = "returned"
               [] OTHER ->
                    /\ io' = [io EXCEPT !.records = @ + 1]
                    /\ UNCHANGED <<status, log>>
    /\ CallFrame

\* oas_precision
OasPrecision ==
    /\ fn = "oas_precision"
    /\ status = "entry"
    /\ \E in \in FopenResults, header \in OasHeaders, version \in {"1.0", "2.0"},
          real \in StartReals :
          LET opened == [io EXCEPT !.handle = in]
          IN  IF in = "NULL"
              THEN /\ log' = log \cup {"Unable to open OASIS file for input"}
                   /\ io' = [Fclose(opened) EXCEPT !.result = -1]
                   /\ status' \in AfterFclose(opened)
              ELSE IF header # "%SEMI-OASIS"
              THEN /\ log' = log \cup {"Invalid OASIS header found"}
                   /\ io' = [Fclose(opened) EXCEPT !.result = -1]
                   /\ status' \in AfterFclose(opened)
              ELSE /\ log' = IF version # "1.0"
                             THEN log \cup {"Unsupported OASIS file version"} ELSE log
                   /\ io' = [Fclose(opened) EXCEPT !.precision = Micron \div real,
                                                   !.result = 0]
                   /\ status' \in AfterFclose(opened)
    /\ UNCHANGED rec
    /\ CallFrame

\* write_gds up to the first write
WriteGdsOpen ==
    /\ fn = "write_gds"
    /\ status = "entry"
    /\ \E file \in FopenResults :
          IF file = "NULL"
          THEN /\ log' = log \cup {"Unable to open GDSII file for output"}
               /\ io' = [io EXCEPT !.handle = file, !.result = "void"]
               /\ status' = "returned"
          ELSE /\ io' = [io EXCEPT !.handle = file]
               /\ status' = "writing"
               /\ UNCHANGED log
    /\ UNCHANGED rec
    /\ CallFrame

\* write_gds from the first write to its return: every record is written
WriteGdsClose ==
    /\ fn = "write_gds"
    /\ status = "writing"
    /\ \E n \in 2..(MaxElems + 2) :
          io' = [Fclose(io) EXCEPT !.records = n, !.result = "void"]
    /\ status' = "returned"
    /\ UNCHANGED log
    /\ UNCHANGED rec
    /\ CallFrame

\* write_oas up to the header
WriteOasOpen ==
    /\ fn = "write_oas"
    /\ status = "entry"
    /\ \E file \in FopenResults :
          LET allocated == [io EXCEPT !.data = "allocated", !.handle = file]
          IN  IF file = "NULL"
              THEN /\ log' = log \cup {"Unable to open OASIS file for output"}
                   /\ io' = [allocated EXCEPT !.result = "void"]
                   /\ status' = "returned"
              ELSE /\ io' = allocated
                   /\ status' = "writing"
                   /\ UNCHANGED log
    /\ UNCHANGED rec
    /\ CallFrame

\* write_oas from the header to its return: every record is written
WriteOasClose ==
    /\ fn = "write_oas"
    /\ status = "writing"
    /\ \E n \in 2..(MaxElems + 2) :
          io' = [Fclose(FreeData(io)) EXCEPT !.records = n, !.result = "void"]
    /\ status' = "returned"
    /\ UNCHANGED log
    /\ UNCHANGED rec
    /\ CallFrame

InitFiles ==
    /\ fixup = FixupInit
    /\ gds = GdsInit
    /\ fn \in {"read_gds", "read_oas", "write_gds", "write_oas", "gds_units",
               "oas_precision"}
    /\ file_kind = "call"
    /\ status = "entry"
    /\ rec = [NoRec EXCEPT !.type = "START"]
    /\ log = {}
    /\ library = EmptyLibrary
    /\ cells = <<>>
    /\ polygons = <<>>
    /\ flexpaths = <<>>
    /\ references = <<>>
    /\ labels = <<>>
    /\ cell = 0
    /\ gds_polygon = 0
    /\ gds_path = 0
    /\ reference = 0
    /\ gds_label = 0
    /\ modal = ModalInit
    /\ cell_name_table = <<>>
    /\ label_text_table = <<>>
    /\ in_data = <<>>
    /\ next_property = PropertiesOf("library", 0)
    /\ lib_in = LibOf(OasInit)
    /\ files = NoFiles
    /\ libs_out = NotRead
    /\ out = NoStream
    /\ wr = NoWriter
    /\ \E unit \in UnitArgs, precision \in UnitArgs :
          io = [NoCall EXCEPT
                  !.unit = IF fn \in {"write_gds", "write_oas"} THEN 0 ELSE unit,
                  !.precision = IF fn \in {"gds_units", "oas_precision"}
                                THEN precision ELSE 0,
                  !.library = IF fn \in {"read_gds", "read_oas"}
                              THEN ZeroLibrary ELSE "none"]

NextFiles ==
    \/ ReadGdsEnter
    \/ ReadGdsRecord
    \/ ReadOasEnter
    \/ ReadOasRecord
    \/ GdsUnitsEnter
    \/ GdsUnitsRecord
    \/ OasPrecision
    \/ WriteGdsOpen
    \/ WriteGdsClose
    \/ WriteOasOpen
    \/ WriteOasClose

SpecFiles == InitFiles /\ [][NextFiles]_vars

\* C23: in the six functions, on every exit path a handle that was opened is
\* closed exactly once before return, and no close is issued on a handle
\* whose open failed
C23_HandleClosedOnce ==
    status \in {"returned", "crashed"} =>
        io.fclose = IF io.handle = "NULL" THEN <<>> ELSE <<"open">>

\* C24: on every exit path of write_oas, the open-failure path included, the
\* CBLOCK staging buffer allocated at entry is released before return
C24_ScratchReleased ==
    (fn = "write_oas" /\ status = "returned") => io.data = "freed"

\* C25: read_gds and read_oas return an empty library when the file cannot be
\* opened, and read_oas also when the first 14 bytes are not the OASIS header;
\* no record is processed in these cases
C25_EmptyLibraryOnFailure ==
    (/\ fn \in {"read_gds", "read_oas"}
     /\ io.handle = "NULL" \/ "Invalid OASIS header found" \in log)
        => /\ status = "returned"
           /\ io.result = ZeroLibrary
           /\ io.records = 0

\* C26: gds_units returns 0 and sets unit and precision exactly when a UNITS
\* record is found before the end of the record stream, and -1 with both
\* untouched otherwise; oas_precision returns -1 with precision untouched when
\* the file cannot be opened or the header is invalid, and 0 otherwise
C26_UnitsResult ==
    [][/\ (fn = "gds_units" /\ status' # status) =>
             /\ status' \in {"reading", "returned"}
             /\ status' = "returned" =>
                   IF rec'.type = "UNITS"
                   THEN /\ io'.result = 0
                        /\ \E d \in UnitsData :
                              /\ io'.precision = d.db_in_meters
                              /\ io'.unit = d.db_in_meters * d.per_user
                   ELSE io'.result = -1 /\ io'.unit = io.unit /\ io'.precision = io.precision
       /\ fn = "oas_precision" =>
             /\ status' = "returned"
             /\ IF io'.handle = "NULL" \/ "Invalid OASIS header found" \in log'
                THEN io'.result = -1 /\ io'.precision = io.precision
                ELSE io'.result = 0]_vars


\* C27: in every library returned by read_gds or read_oas no two entries of
\* the cell sequence have the same name and no cell appears twice
C27_UniqueCellNames ==
    (fn \in {"read_gds", "read_oas"} /\ status = "returned") =>
        \A i, j \in DOMAIN library.cell_array :
            i # j => /\ library.cell_array[i] # library.cell_array[j]
                     /\ cells[library.cell_array[i]].name # NULLSTR =>
                            cells[library.cell_array[i]].name
                                # cells[library.cell_array[j]].name


-----------------------------------------------------------------------------
(* read_oas over the bytes of a file: io.file holds the bytes and io.pos    *)
(* the position of the FILE*, so that fseek is a step of the model.  The   *)
(* files hold one-byte records (PAD, XYABSOLUTE, XYRELATIVE), one CBLOCK   *)
(* of an unsupported compression type and the END record.                  *)

\* "%SEMI-OASIS\r\n", START, the string "1.0", the real 1000 (type 0) and
\* offset_table_flag 1
OasHeaderBytes ==
    <<37, 83, 69, 77, 73, 45, 79, 65, 83, 73, 83, 13, 10, 1, 3, 49, 46, 48, 0, 232, 7, 1>>

\* n bytes of value b
Fill(n, b) == [i \in 1..n |-> b]

\* CBLOCK, comp-type, uncomp-byte-count, comp-byte-count, comp-bytes
CblockBytes(comp, len, b) == <<34, comp, len, len>> \o Fill(len, b)

\* END with its 255 bytes of offset table, padding and validation
EndBytes == <<2>> \o Fill(255, 0)

\* the records in front of the CBLOCK and behind it
RecordsBefore == {<<>>, <<0>>, <<15>>, <<16>>, <<16, 15>>, Fill(20, 0)}
RecordsBehind == {<<>>, <<15>>, <<16>>}

\* lengths of the compressed payload
PayloadLengths == {35, 36, 40}

OasByteFiles ==
    {OasHeaderBytes \o before \o CblockBytes(comp, len, b) \o behind \o EndBytes :
        before \in RecordsBefore, comp \in {1, 2}, len \in PayloadLengths,
        b \in {0, 15, 16}, behind \in RecordsBehind}

\* oasis_read(&record, 1, 1, in) and the operands the handler reads: the
\* record at position pos of the file, and the bytes it takes
RecordAt(file, pos) ==
    LET b == file[pos + 1]
    IN  CASE b = 0 -> [r |-> [NoRec EXCEPT !.type = "PAD"], size |-> 1]
          [] b = 2 -> [r |-> [NoRec EXCEPT !.type = "END"], size |-> 1]
          [] b = 15 -> [r |-> [NoRec EXCEPT !.type = "XYABSOLUTE"], size |-> 1]
          [] b = 16 -> [r |-> [NoRec EXCEPT !.type = "XYRELATIVE"], size |-> 1]
          [] b = 34 -> [r |-> [NoRec EXCEPT !.type = "CBLOCK", !.num = file[pos + 2],
                                            !.usize = file[pos + 3],
                                            !.csize = file[pos + 4]],
                        size |-> 4]

\* fseek(in.file, offset, SEEK_SET)
SeekSet(pos, offset) == offset

\* the position of the FILE* after the handler of record d.r read at pos
PosAfter(file, pos, d) ==
    CASE d.r.type = "CBLOCK" /\ d.r.num # 0 -> SeekSet(pos + d.size, d.r.csize)
      [] d.r.type = "END" -> Len(file)
      [] OTHER -> pos + d.size

ByteFrame ==
    UNCHANGED <<fn, gds_polygon, gds_path, reference, gds_label, file_kind, gds, lib_in, files,
                libs_out, out, wr>>

\* one iteration of the record loop on the record found at io.pos
ReadAt(types) ==
    /\ fn = "read_oas"
    /\ file_kind = "bytes"
    /\ status = "reading"
    /\ io.pos < Len(io.file)
    /\ LET d == RecordAt(io.file, io.pos)
       IN  /\ d.r.type \in types
           /\ SetState(OasRecord(Cur, d.r, "crash"))
           /\ rec' = d.r
           /\ io' = [io EXCEPT !.pos = PosAfter(io.file, io.pos, d)]
    /\ ByteFrame

ReadBytePad == \E type \in {"PAD"} : ReadAt({type})
ReadByteXY == \E type \in {"XYABSOLUTE", "XYRELATIVE"} : ReadAt({type})
ReadByteCblock == \E type \in {"CBLOCK"} : ReadAt({type})
ReadByteEnd == \E type \in {"END"} : ReadAt({type})

\* the loop ends when oasis_read finds no byte at io.pos
ReadByteEof ==
    /\ fn = "read_oas"
    /\ file_kind = "bytes"
    /\ status \in {"reading", "at_end"}
    /\ io.pos >= Len(io.file)
    /\ SetState(OasFinish(Cur))
    /\ rec' = [NoRec EXCEPT !.type = "EOF"]
    /\ io' = [Fclose(io) EXCEPT !.result = "library"]
    /\ ByteFrame

InitBytes ==
    /\ fixup = FixupInit
    /\ gds = GdsInit
    /\ fn = "read_oas"
    /\ file_kind = "bytes"
    /\ status = "reading"
    /\ rec = [NoRec EXCEPT !.type = "START"]
    /\ log = {}
    /\ library = EmptyLibrary
    /\ cells = <<>>
    /\ polygons = <<>>
    /\ flexpaths = <<>>
    /\ references = <<>>
    /\ labels = <<>>
    /\ cell = 0
    /\ gds_polygon = 0
    /\ gds_path = 0
    /\ reference = 0
    /\ gds_label = 0
    /\ modal = ModalInit
    /\ cell_name_table = <<>>
    /\ label_text_table = <<>>
    /\ in_data = <<>>
    /\ next_property = PropertiesOf("library", 0)
    /\ lib_in = LibOf(OasInit)
    /\ files = NoFiles
    /\ libs_out = NotRead
    /\ out = NoStream
    /\ wr = NoWriter
    /\ \E file \in OasByteFiles :
          io = [NoCall EXCEPT !.handle = "open", !.file = file,
                              !.pos = Len(OasHeaderBytes)]

NextBytes == ReadBytePad \/ ReadByteXY \/ ReadByteCblock \/ ReadByteEnd \/ ReadByteEof

SpecBytes == InitBytes /\ [][NextBytes]_vars

\* C28: a CBLOCK of read_oas with a compression type other than 0 is logged and
\* skipped: reading continues with the record at the first byte after the
\* compressed payload, wherever in the file the CBLOCK is
C28_CblockSkipped ==
    [][(rec'.type = "CBLOCK" /\ rec'.num # 0) =>
          /\ "CBLOCK compression method not supported" \in log'
          /\ io'.pos = io.pos + 4 + rec'.csize]_vars


\* the property lists of the entities records introduce: cells, elements and
\* name-table entries
EntityProperties ==
    <<[i \in DOMAIN cells |-> cells[i].properties],
      [i \in DOMAIN references |-> references[i].properties],
      [i \in DOMAIN labels |-> labels[i].properties],
      [i \in DOMAIN polygons |-> polygons[i].properties],
      [i \in DOMAIN flexpaths |-> flexpaths[i].properties],
      [i \in DOMAIN cell_name_table |-> cell_name_table[i].properties],
      [i \in DOMAIN label_text_table |-> label_text_table[i].properties]>>

\* the record types that introduce an entity
EntityRecords ==
    {"CELL", "CELL_REF_NUM", "PLACEMENT", "PLACEMENT_TRANSFORM", "TEXT", "RECTANGLE",
     "POLYGON", "PATH", "TRAPEZOID_AB", "TRAPEZOID_A", "TRAPEZOID_B", "CTRAPEZOID",
     "CIRCLE", "CELLNAME", "CELLNAME_IMPLICIT", "TEXTSTRING", "TEXTSTRING_IMPLICIT"}

\* the property list of read_oas that a PROPERTY record extends by one at its end
PropertyAppended ==
    LET before == NextPropertyList(Cur)
        after == NextPropertyList(Cur)'
    IN  /\ Len(after) = Len(before) + 1
        /\ SubSeq(after, 1, Len(before)) = before

\* C29: each PROPERTY / LAST_PROPERTY of read_oas is appended, in file order,
\* to the property list of the entity created by the nearest preceding
\* non-property record; a property that follows a record introducing no
\* entity (XYABSOLUTE, XYRELATIVE, PAD, CBLOCK, an ignored record) is not
\* attached to an entity introduced before that record
C29_PropertyDestination ==
    [][(/\ fn = "read_oas"
        /\ rec'.type \in {"PROPERTY", "LAST_PROPERTY"}
        /\ status' # "crashed") =>
          /\ rec.type \in EntityRecords => PropertyAppended
          /\ rec.type \notin EntityRecords \cup {"PROPERTY", "LAST_PROPERTY", "START"} =>
                EntityProperties' = EntityProperties]_vars


-----------------------------------------------------------------------------
(* read_oas on files with property names and property strings given by     *)
(* reference number: the name tables stand in front of the properties or   *)
(* behind them, as OASIS allows.                                           *)

\* the property names and property strings of the file, by reference number
PropNames == <<"N0", "N1">>
PropStrings == <<"V0", "V1">>

\* the next record of a name table: implicit, or with its number given
TableRecords(implicit, explicit, table, names) ==
    IF Len(table) >= Len(names) THEN {}
    ELSE {[NoRec EXCEPT !.type = implicit, !.name = names[Len(table) + 1]],
          [NoRec EXCEPT !.type = explicit, !.name = names[Len(table) + 1],
                        !.num = Len(table)]}

\* explicit value lists of one value: references to the property-string table,
\* a plain unsigned integer and a string
ValueLists ==
    {<<[data_type |-> "ReferenceA", v |-> n, bytes |-> NULLSTR]>> : n \in {0, 1}}
        \cup {<<[data_type |-> "UnsignedInteger", v |-> 1, bytes |-> NULLSTR]>>,
              <<[data_type |-> "AString", v |-> 0, bytes |-> "S"]>>}

\* one reference and one string of them
FewValueLists ==
    {w \in ValueLists : w[1].data_type \in {"ReferenceA", "AString"} /\ w[1].v = 0}

\* PROPERTY records by info byte: 0x16 name by number, 0x14 name as string and
\* 0x10 modal name, each with one value; 0x0E and 0x0C with the modal value
\* list; and LAST_PROPERTY
RefPropertyRecords ==
    {[NoRec EXCEPT !.type = "PROPERTY", !.info = 22, !.num = n, !.values = v] :
        n \in {0, 1}, v \in ValueLists}
      \cup {[NoRec EXCEPT !.type = "PROPERTY", !.info = 20, !.name = "O1", !.values = v] :
              v \in FewValueLists}
      \cup {[NoRec EXCEPT !.type = "PROPERTY", !.info = 16, !.values = v] :
              v \in FewValueLists}
      \cup {[NoRec EXCEPT !.type = "PROPERTY", !.info = 14, !.num = n] : n \in {0, 1}}
      \cup {[NoRec EXCEPT !.type = "PROPERTY", !.info = 12, !.name = "O2"],
            [NoRec EXCEPT !.type = "LAST_PROPERTY"]}

TablesComplete ==
    /\ Len(fixup.property_name_table) = Len(PropNames)
    /\ Len(fixup.property_value_table) = Len(PropStrings)

PropTablesStarted == fixup.property_name_table # <<>> \/ fixup.property_value_table # <<>>

\* the tables stand in front of the first property, or behind the last one
TableRoom ==
    /\ status = "reading"
    /\ file_kind = "tables_last" => fixup.allocated > 0

ReadPropName ==
    \E r \in Upcoming({"PROPNAME", "PROPNAME_IMPLICIT"},
                   IF TableRoom /\ fixup.property_value_table = <<>>
                   THEN TableRecords("PROPNAME_IMPLICIT", "PROPNAME",
                                     fixup.property_name_table, PropNames)
                   ELSE {}) :
        ReadOas(r, "crash")

ReadPropString ==
    \E r \in Upcoming({"PROPSTRING", "PROPSTRING_IMPLICIT"},
                   IF TableRoom /\ Len(fixup.property_name_table) = Len(PropNames)
                   THEN TableRecords("PROPSTRING_IMPLICIT", "PROPSTRING",
                                     fixup.property_value_table, PropStrings)
                   ELSE {}) :
        ReadOas(r, "crash")

ReadPropCell ==
    \E r \in Upcoming({"CELL"},
                   IF status = "reading" /\ cells = <<>>
                          /\ (PropTablesStarted => TablesComplete)
                   THEN {[NoRec EXCEPT !.type = "CELL", !.name = "A"]} ELSE {}) :
        ReadOas(r, "crash")

ReadRefProperty ==
    \E r \in Upcoming({"PROPERTY", "LAST_PROPERTY"},
                   IF /\ status = "reading"
                      /\ Len(AllProperties(Cur)) < MaxElems
                      /\ IF file_kind = "tables_first" THEN TablesComplete
                         ELSE ~PropTablesStarted
                   THEN RefPropertyRecords ELSE {}) :
        ReadOas(r, "crash")

InitProps ==
    /\ fn = "read_oas"
    /\ file_kind \in {"tables_first", "tables_last"}
    /\ status = "reading"
    /\ rec = [NoRec EXCEPT !.type = "START"]
    /\ log = {}
    /\ library = EmptyLibrary
    /\ cells = <<>>
    /\ polygons = <<>>
    /\ flexpaths = <<>>
    /\ references = <<>>
    /\ labels = <<>>
    /\ cell = 0
    /\ gds_polygon = 0
    /\ gds_path = 0
    /\ reference = 0
    /\ gds_label = 0
    /\ modal = ModalInit
    /\ cell_name_table = <<>>
    /\ label_text_table = <<>>
    /\ in_data = <<>>
    /\ next_property = PropertiesOf("library", 0)
    /\ lib_in = LibOf(OasInit)
    /\ files = NoFiles
    /\ libs_out = NotRead
    /\ out = NoStream
    /\ wr = NoWriter
    /\ io = NoCall
    /\ fixup = FixupInit
    /\ gds = GdsInit

NextProps ==
    \/ ReadPropName
    \/ ReadPropString
    \/ ReadPropCell
    \/ ReadRefProperty
    \/ ReadEnd
    \/ OasReturn

SpecProps == InitProps /\ [][NextProps]_vars


\* the name field holds a reference number
IsRawName(name) == \E n \in 0..15 : name = NumberAsName(n)

\* two values are the same apart from their address
SameValue(v, w) ==
    /\ v.type = w.type
    /\ v.unsigned_integer = w.unsigned_integer
    /\ v.bytes = w.bytes

\* a step on a PROPERTY / LAST_PROPERTY record enters the new property and its
\* values in the fix-up lists exactly once where they refer to a table, and
\* nothing else; modal names and modal values are taken over unchanged
PropertyEntered ==
    LET info == IF rec'.type = "LAST_PROPERTY" THEN 8 ELSE rec'.info
        at == fixup.allocated + 1
        p == Last(NextPropertyList(Cur)')
        names == fixup.unfinished_property_name
        values == fixup.unfinished_property_value
        names2 == fixup'.unfinished_property_name
        values2 == fixup'.unfinished_property_value
        by_number == IF Bit(info, 4) THEN Bit(info, 2) ELSE IsRawName(modal.property)
        modal_list == modal.property_value_list
    IN  /\ p.at = at
        /\ names2 = IF by_number THEN Append(names, at) ELSE names
        /\ p.name = IF ~Bit(info, 4) THEN modal.property
                    ELSE IF Bit(info, 2) THEN NumberAsName(rec'.num)
                    ELSE rec'.name
        /\ SubSeq(values2, 1, Len(values)) = values
        /\ \A k \in (Len(values) + 1)..Len(values2) :
              \E i \in DOMAIN p.value : values2[k] = p.value[i].at
        /\ \A i \in DOMAIN p.value : Occurrences(values, p.value[i].at) = 0
        /\ IF Bit(info, 8)
           THEN /\ Len(p.value) = Len(modal_list)
                /\ \A i \in DOMAIN modal_list :
                      /\ SameValue(p.value[i], modal_list[i])
                      /\ Occurrences(values2, p.value[i].at)
                             = Occurrences(values, modal_list[i].at)
           ELSE /\ Len(p.value) = info \div 16
                /\ \A i \in DOMAIN p.value :
                      Occurrences(values2, p.value[i].at)
                          = IF rec'.values[i].data_type \in ReferenceTypes THEN 1 ELSE 0

\* the END step gives every property entered in the name list the bytes of
\* the property-name entry of its number, every value entered in the value
\* list the bytes of the property-string entry of its number as a string, and
\* leaves the other names and values alone
FixedAtEnd ==
    LET names == fixup.unfinished_property_name
        values == fixup.unfinished_property_value
        name_table == fixup.property_name_table
        value_table == fixup.property_value_table
        after == AllProperties(Cur)'
        After(p) == after[CHOOSE i \in DOMAIN after : after[i].at = p.at]
    IN  \A i \in DOMAIN AllProperties(Cur) :
            LET p == AllProperties(Cur)[i]
                q == After(p)
            IN  /\ q.name = IF Contains(names, p.at)
                            THEN name_table[NameAsNumber(p.name) + 1].bytes
                            ELSE p.name
                /\ Len(q.value) = Len(p.value)
                /\ \A j \in DOMAIN p.value :
                      IF Contains(values, p.value[j].at)
                      THEN /\ q.value[j].type = "String"
                           /\ q.value[j].bytes
                                  = value_table[p.value[j].unsigned_integer + 1].bytes
                      ELSE q.value[j] = p.value[j]

\* C30: every property of read_oas whose name was given by reference number,
\* directly or by reusing the modal name, and every value that refers to the
\* property-string table, directly or through a reused modal value list, is
\* entered in its fix-up list exactly once; after END each has the name, or the
\* string bytes, of the table entry with that number, so that a property that
\* reuses the modal name or value list ends with the name and values of the
\* property that set them
C30_PropertyFixUp ==
    [][(fn = "read_oas" /\ status' # "crashed") =>
          /\ rec'.type \in {"PROPERTY", "LAST_PROPERTY"} => PropertyEntered
          /\ (rec'.type = "END" /\ ~EndUndefined(Cur)) => FixedAtEnd]_vars

\* END has resolved a property that took the modal value list of an earlier
\* property, a reference to the property-string table, and has its name by
\* reference number as well: both end with the same name and string
C30_Witness ==
    /\ fn = "read_oas"
    /\ status = "at_end"
    /\ \E i, j \in DOMAIN AllProperties(Cur) :
          LET p == AllProperties(Cur)[i]
              q == AllProperties(Cur)[j]
          IN  /\ p.at < q.at
              /\ Len(p.value) = 1 /\ Len(q.value) = 1
              /\ modal.property_value_list # <<>>
              /\ modal.property_value_list[1].at = p.value[1].at
              /\ Contains(fixup.unfinished_property_value, q.value[1].at)
              /\ Contains(fixup.unfinished_property_name, q.at)
              /\ q.name = p.name /\ q.name \in Range(PropNames)
              /\ q.value[1].type = "String"
              /\ q.value[1].bytes = p.value[1].bytes
              /\ q.value[1].bytes \in Range(PropStrings)


-----------------------------------------------------------------------------
(* read_gds: the locals factor, width and key, the records that set or use *)
(* them, and the records no case handles.                                   *)

\* data32[0] of a WIDTH record; a negative width is absolute
WidthData == {2, -4}

\* data16[0] of a PROPATTR record
KeyData == {1, 2}

\* record types of the default case: one with a name in gdsii_record_names,
\* one beyond the table
UnsupportedRecords == {[type |-> "TEXTNODE", named |-> TRUE],
                       [type |-> "0x7F", named |-> FALSE]}

\* the default case writes nothing to stderr
ReportNothing(lg, r) == lg

\* the fprintf of the default case: by name when buffer[2] is inside the table
ReportUnsupported(lg, r) ==
    lg \cup {IF r.named THEN "Record type is not supported" ELSE "Unknown record type"}

\* set_gds_property(properties, key, str)
SetGdsProperty(properties, key, str) == <<[name |-> "S_GDS_PROPERTY", key |-> key, value |-> str]>> \o properties

\* the input holds a bounded number of the records of this section
GdsStateRoom == io.records < MaxElems

\* some element is open
GdsElementOpen == gds_polygon # 0 \/ gds_path # 0 \/ reference # 0 \/ gds_label # 0

\* what the records of this section leave alone
GdsStateFrame ==
    UNCHANGED <<fn, status, library, cells, cell, gds_polygon, gds_path, reference,
                gds_label, modal, cell_name_table, label_text_table, in_data, fixup,
                next_property, file_kind, lib_in, files, libs_out, out, wr>>

\* case UNITS
ReadUnits ==
    /\ GdsReading
    /\ rec.type = "START"
    /\ \E d \in UnitsData :
          /\ gds' = [gds EXCEPT !.factor = GdsFactor(io, d)]
          /\ io' = GdsUnits(io, d)
    /\ rec' = GdsRec("UNITS", NULLSTR)
    /\ UNCHANGED <<log, polygons, flexpaths, references, labels>>
    /\ GdsStateFrame

\* case WIDTH
ReadWidth ==
    /\ GdsReading
    /\ GdsElementOpen
    /\ GdsStateRoom
    /\ \E w \in WidthData :
          /\ gds' = [gds EXCEPT !.width = IF w < 0 THEN gds.factor * (-w) ELSE gds.factor * w]
          /\ flexpaths' = IF gds_path # 0
                          THEN [flexpaths EXCEPT ![gds_path].scale_width = ~(w < 0)]
                          ELSE flexpaths
    /\ rec' = GdsRec("WIDTH", NULLSTR)
    /\ io' = [io EXCEPT !.records = @ + 1]
    /\ UNCHANGED <<log, polygons, references, labels>>
    /\ GdsStateFrame

\* case PROPATTR
ReadPropAttr ==
    /\ GdsReading
    /\ GdsElementOpen
    /\ GdsStateRoom
    /\ \E k \in KeyData : gds' = [gds EXCEPT !.key = k]
    /\ rec' = GdsRec("PROPATTR", NULLSTR)
    /\ io' = [io EXCEPT !.records = @ + 1]
    /\ UNCHANGED <<log, polygons, flexpaths, references, labels>>
    /\ GdsStateFrame

\* case PROPVALUE: the open element that takes the property, the polygon first
ReadPropValue ==
    /\ GdsReading
    /\ GdsElementOpen
    /\ GdsStateRoom
    /\ polygons' = IF gds_polygon # 0
                   THEN [polygons EXCEPT ![gds_polygon].properties =
                                             SetGdsProperty(@, gds.key, "V")]
                   ELSE polygons
    /\ flexpaths' = IF gds_polygon = 0 /\ gds_path # 0
                    THEN [flexpaths EXCEPT ![gds_path].properties =
                                               SetGdsProperty(@, gds.key, "V")]
                    ELSE flexpaths
    /\ references' = IF gds_polygon = 0 /\ gds_path = 0 /\ reference # 0
                     THEN [references EXCEPT ![reference].properties =
                                                 SetGdsProperty(@, gds.key, "V")]
                     ELSE references
    /\ labels' = IF gds_polygon = 0 /\ gds_path = 0 /\ reference = 0 /\ gds_label # 0
                 THEN [labels EXCEPT ![gds_label].properties =
                                         SetGdsProperty(@, gds.key, "V")]
                 ELSE labels
    /\ rec' = GdsRec("PROPVALUE", NULLSTR)
    /\ io' = [io EXCEPT !.records = @ + 1]
    /\ UNCHANGED <<log, gds>>
    /\ GdsStateFrame

\* default case: the record is reported, by name when the table has one
ReadUnsupported ==
    /\ GdsReading
    /\ GdsStateRoom
    /\ \E r \in UnsupportedRecords :
          /\ log' = ReportUnsupported(log, r)
          /\ rec' = GdsRec(r.type, NULLSTR)
    /\ io' = [io EXCEPT !.records = @ + 1]
    /\ UNCHANGED <<gds, polygons, flexpaths, references, labels>>
    /\ GdsStateFrame

InitGds ==
    /\ fixup = FixupInit
    /\ gds = GdsInit
    /\ fn = "read_gds"
    /\ file_kind = "gds_state"
    /\ status = "reading"
    /\ rec = [NoRec EXCEPT !.type = "START"]
    /\ log = {}
    /\ library = EmptyLibrary
    /\ cells = <<>>
    /\ polygons = <<>>
    /\ flexpaths = <<>>
    /\ references = <<>>
    /\ labels = <<>>
    /\ cell = 0
    /\ gds_polygon = 0
    /\ gds_path = 0
    /\ reference = 0
    /\ gds_label = 0
    /\ modal = ModalInit
    /\ cell_name_table = <<>>
    /\ label_text_table = <<>>
    /\ in_data = <<>>
    /\ next_property = PropertiesOf("library", 0)
    /\ lib_in = LibOf(OasInit)
    /\ files = NoFiles
    /\ libs_out = NotRead
    /\ out = NoStream
    /\ wr = NoWriter
    /\ io = [NoCall EXCEPT !.handle = "open", !.unit = Micron, !.library = ZeroLibrary]

NextGdsState ==
    \/ ReadUnits
    \/ ReadBgnStr
    \/ ReadStrName
    \/ ReadBoundary
    \/ ReadGdsPath
    \/ ReadWidth
    \/ ReadGdsXY
    \/ ReadPropAttr
    \/ ReadPropValue
    \/ ReadUnsupported
    \/ ReadEndEl

SpecGds == InitGds /\ [][NextGdsState]_vars


\* the record just read has no case in read_gds
UnsupportedStep == \E r \in UnsupportedRecords : rec'.type = r.type

\* C31: a record of read_gds whose type has no handler is logged and leaves
\* the library, the cells, the open cell, the open element and every element,
\* the scale factor, the pending width and the pending property key as they were
C31_UnsupportedSkipped ==
    [][(fn = "read_gds" /\ UnsupportedStep) =>
          /\ \E r \in UnsupportedRecords :
                /\ rec'.type = r.type
                /\ log \subseteq log'
                /\ (IF r.named THEN "Record type is not supported"
                    ELSE "Unknown record type") \in log'
          /\ status' = "reading"
          /\ UNCHANGED <<library, cells, cell, polygons, flexpaths, references, labels,
                         gds_polygon, gds_path, reference, gds_label, gds>>]_vars

\* an unsupported record was read while a cell and a path were open, after
\* UNITS and WIDTH had set the factor and the width
C31_Witness ==
    /\ fn = "read_gds"
    /\ rec.type = "TEXTNODE"
    /\ "Record type is not supported" \in log
    /\ cell # 0
    /\ gds_path # 0
    /\ gds.factor # GdsOne
    /\ gds.width # 0


\* C32: read_oas terminates on every finite file because the read position
\* never moves back: every record read leaves the position behind the offset
\* the record was read at, also a CBLOCK with an unsupported compression type
C32_PositionAdvances ==
    [][(fn = "read_oas" /\ file_kind = "bytes" /\ rec'.type # "EOF") =>
          io'.pos > io.pos]_vars


\* C33: at END every reference number read_oas uses as an index into the
\* cell-name, text-string, property-name or property-string table is smaller
\* than the size of the table and selects an entry a name record defined
C33_BoundedTableAccess ==
    [][(fn = "read_oas" /\ status = "reading" /\ rec'.type = "END") =>
          /\ \A i \in DOMAIN cells :
                cells[i].name = NULLSTR => ValidEntry(cell_name_table, cells[i].owner)
          /\ \A i \in DOMAIN labels :
                labels[i].text = NULLSTR => ValidEntry(label_text_table, labels[i].owner)
          /\ \A i \in DOMAIN references :
                references[i].type = "Cell" =>
                    ValidEntry(cell_name_table, references[i].cell)
          /\ \A i \in DOMAIN AllProperties(Cur) :
                LET p == AllProperties(Cur)[i]
                IN  /\ ~NameUndefined(Cur, p)
                    /\ \A j \in DOMAIN p.value : ~ValueUndefined(Cur, p.value[j])]_vars


\* the state the record just read needs is missing: no cell is open for an
\* element, or the modal variable the record reuses was never set
MissingState ==
    \/ rec'.type \in ElementTypes /\ cell = 0
    \/ rec'.type \in PlacementTypes /\ ~Bit(rec'.info, 128) /\ modal.placement_cell = 0
    \/ rec'.type = "TEXT" /\ ~Bit(rec'.info, 64) /\ modal.text_string = 0
    \/ rec'.type = "PROPERTY" /\ ~Bit(rec'.info, 4) /\ modal.property = NULLSTR
    \/ rec'.type = "LAST_PROPERTY" /\ modal.property = NULLSTR

\* C34: read_oas appends an element only to a cell an earlier CELL record
\* opened and reads the modal placement cell, text string and property only
\* after a record has set them; where this state is missing the reader does
\* not access it
C34_NoMissingState ==
    [][(fn = "read_oas" /\ status = "reading" /\ MissingState) =>
          status' # "crashed"]_vars


\* C35: read_gds returns the parsed library exactly when it reaches ENDLIB:
\* it returns at ENDLIB with the cells parsed so far and at the end of the
\* records with an empty library, at no other record, and processes no record
\* after it returned
C35_ReturnAtEndLib ==
    [][fn = "read_gds" =>
          /\ status # "reading" => UNCHANGED vars
          /\ status' = "returned" => rec'.type \in {"ENDLIB", "EOF"}
          /\ rec'.type = "ENDLIB" =>
                /\ status' \in {"returned", "crashed"}
                /\ library' = library
                /\ cells' = cells
          /\ rec'.type = "EOF" =>
                /\ status' = "returned"
                /\ library'.cell_array = <<>>
                /\ library'.name = NULLSTR]_vars

\* the records ended without ENDLIB after a cell was named and entered in the
\* library: the library returned holds no cell
C35_Witness ==
    /\ fn = "read_gds"
    /\ status = "returned"
    /\ rec.type = "EOF"
    /\ \E i \in DOMAIN cells : cells[i].name # NULLSTR
    /\ library.cell_array = <<>>


\* C36: every library read_oas returns with at least one cell has been fixed
\* up, also when the records end without END: every cell has a name, and
\* references of type Cell exist only where the END fix-up has replaced their
\* reference numbers by cell pointers
C36_FixedBeforeReturn ==
    [][(fn = "read_oas" /\ status' = "returned" /\ library'.cell_array # <<>>) =>
          /\ \A i \in DOMAIN library'.cell_array :
                cells'[library'.cell_array[i]].name # NULLSTR
          /\ (\E i \in DOMAIN references' : references'[i].type = "Cell") =>
                status = "at_end"]_vars


\* the element arrays of the cells
ElementsOfCells(cs) ==
    [i \in DOMAIN cs |-> <<cs[i].polygon_array, cs[i].flexpath_array,
                           cs[i].reference_array, cs[i].label_array>>]

\* C37: read_gds adds an element to a cell only between the BGNSTR and the
\* ENDSTR of that cell: after ENDSTR no cell is open, and an element record
\* read before the next BGNSTR leaves the elements of every cell as they were
C37_CellScope ==
    [][(fn = "read_gds" /\ status = "reading") =>
          /\ rec'.type = "ENDSTR" => cell' = 0
          /\ (rec.type = "ENDSTR" /\ rec'.type \in {"BOUNDARY", "PATH", "SREF", "TEXT"}) =>
                ElementsOfCells(cells') = ElementsOfCells(cells)]_vars


\* the properties of the open element that PROPVALUE writes to
OpenProperties ==
    IF gds_polygon # 0 THEN polygons[gds_polygon].properties
    ELSE IF gds_path # 0 THEN flexpaths[gds_path].properties
    ELSE IF reference # 0 THEN references[reference].properties
    ELSE labels[gds_label].properties

\* C38: the width of a path and the key of a property in read_gds come from a
\* WIDTH, respectively PROPATTR, record of the same element: a PATH whose XY
\* record follows it directly gets half-width 0, and a PROPVALUE directly
\* behind the record that opens its element does not get the key of an
\* earlier element
C38_NoElementStateLeak ==
    [][(fn = "read_gds" /\ status = "reading") =>
          /\ (rec.type = "PATH" /\ rec'.type = "XY" /\ gds_polygon = 0) =>
                flexpaths'[gds_path].half_width = 0
          /\ (rec.type \in {"BOUNDARY", "PATH"} /\ rec'.type = "PROPVALUE") =>
                OpenProperties'[1].key = 0]_vars


\* C39: the unsigned point count of a polygon of read_gds never wraps around:
\* an ENDEL that closes a polygon without XY points leaves the count at 0
C39_PointCountNeverWraps ==
    fn = "read_gds" => \A i \in DOMAIN polygons : ~polygons[i].size_wrapped


\* C40: a reference of write_oas whose target name is the name of no cell of
\* the library is never written as a placement that carries the reference
\* number of a cell of the library
C40_MissingTarget ==
    (file_kind = "steps" /\ wr.pc = "done") =>
        LET ca == lib_in.library.cell_array
            placed == WrittenOf(PlacementTypes)
        IN  \A j \in DOMAIN placed :
                (\A i \in DOMAIN ca : lib_in.cells[ca[i]].name # TargetOf(RefsPlaced[j]))
                    => placed[j].num \notin 0..(Len(ca) - 1)

=============================================================================
